---- MODULE Spec2Model ----
(***************************************************************************)
(* Verification model of the evaluation harness under evals/.              *)
(*                                                                         *)
(* Spec: the resumable, concurrent evaluation engine of                    *)
(* run_e2e_pii_eval.py (run_e2e_pii_eval): dispatch of the work items to a *)
(* ThreadPoolExecutor, recording of out-of-order completions, the          *)
(* contiguous frontier, periodic and on-interrupt checkpoint writes,       *)
(* resume from a checkpoint file and clean-up on completion.  One          *)
(* behaviour is a sequence of runs of the program over the same list of    *)
(* work items; the checkpoint file on disk is what survives from one run   *)
(* to the next.  A run ends by returning, by the KeyboardInterrupt path,   *)
(* by an uncaught error, or by a crash of the process at any step.         *)
(*                                                                         *)
(* RetrySpec: one call of a client of client.py, the retry loop of         *)
(* LabelerClient._call_api or the single request of SafeguardClient.check, *)
(* against a server that answers each request in any way.                  *)
(*                                                                         *)
(* ItemSpec: process_single_item on one work item whose classifier and     *)
(* labeler calls end in any way, then calculate_e2e_metrics on its result. *)
(*                                                                         *)
(* EvalSpec: the loops of run_pii_eval and run_prompt_injection_eval       *)
(* (run_eval.py) with the optional arbiter, then calculate_metrics         *)
(* (metrics.py).                                                           *)
(*                                                                         *)
(* WarnSpec: the error counters and the error-rate warning of the          *)
(* completion loop of run_e2e_pii_eval on work items with many queries.    *)
(*                                                                         *)
(* LiveSpec: Spec under fair scheduling of the running process.            *)
(***************************************************************************)
EXTENDS Integers, Sequences, FiniteSets, TLC

(* ------------------------------ bounds --------------------------------- *)

\* len(eval_items): the number of work items of the corpus.
NumItems == 5

\* run_e2e_pii_eval(num_workers=...): size of the worker pool.
num_workers == 2

\* run_e2e_pii_eval(checkpoint_interval=...): checkpoint every so many items.
checkpoint_interval == 2

\* Number of successive runs of the program in one behaviour.
MaxRuns == 3

(* ------------------------------- state --------------------------------- *)

VARIABLES
    pc,                 \* position of the main thread of the current run
    run,                \* number of runs started so far
    checkpoint_file,    \* TRUE iff this run was given a checkpoint path
    file,               \* the checkpoint file on disk
    start_index,        \* local start_index
    results,            \* local results (loaded prefix, then the final list)
    results_dict,       \* local results_dict (a function index -> result)
    results_dict_bound, \* TRUE once the name results_dict has been assigned
    completed_indices,  \* local completed_indices
    items_to_process,   \* items of items_to_process not yet submitted
    futures,            \* state of the future of each work item in this run
    cur,                \* idx of the future as_completed handed out last
    api_key,            \* TRUE iff SAFEGUARD_API_KEY is set for the process of this run
    exit_code,          \* exit status of the process of this run, -1 while it runs
    error_counts,       \* local error_counts
    warned              \* kinds of the warnings printed at the last completion

\* The state of the evaluation engine (run_e2e_pii_eval).
engineVars == << pc, run, checkpoint_file, file, start_index, results, results_dict,
                 results_dict_bound, completed_indices, items_to_process, futures, cur,
                 api_key, exit_code, error_counts, warned >>

\* One call of a client of evals/client.py: LabelerClient._call_api with its
\* retry loop, or SafeguardClient.check.
VARIABLES
    r_pc,               \* position inside the call
    r_client,           \* "labeler" or "safeguard"
    attempt,            \* loop variable attempt of _call_api
    last_error,         \* local last_error of _call_api
    wait_log,           \* the wait_time of every time.sleep, in order
    trace,              \* what the server answered to every httpx.post, in order
    raised              \* the error raised to the caller, when the call raised

retryVars == << r_pc, r_client, attempt, last_error, wait_log, trace, raised >>

\* One call of process_single_item followed by calculate_e2e_metrics on its result.
VARIABLES
    i_pc,               \* position
    oracle,             \* what the classifier and the labeler answer, per query
    item_result,        \* the result dict of process_single_item
    e2e_metrics         \* what calculate_e2e_metrics returns

itemVars == << i_pc, oracle, item_result, e2e_metrics >>

\* One run of run_pii_eval or run_prompt_injection_eval (evals/run_eval.py).
VARIABLES
    e_pc,               \* position
    eval_type,          \* "pii" or "injection"
    arbiter,            \* TRUE iff an arbiter client was passed
    calls,              \* per sample: dataset label, check and arbiter outcome
    y_true,             \* local y_true
    y_pred,             \* local y_pred
    detailed_results,   \* local detailed_results
    error_count,        \* local error_count
    arbiter_calls,      \* local arbiter_calls
    arbiter_overrides,  \* local arbiter_overrides
    metrics             \* what calculate_metrics returns

evalVars == << e_pc, eval_type, arbiter, calls, y_true, y_pred, detailed_results,
               error_count, arbiter_calls, arbiter_overrides, metrics >>

\* The error tracking of the completion loop of run_e2e_pii_eval, on work
\* items with enough queries for the query count to reach 100.
VARIABLES
    w_pc,               \* position
    w_results_dict,     \* local results_dict
    w_error_counts,     \* local error_counts
    w_total_before,     \* total_queries before the last completion
    w_warned,           \* kinds of the warnings printed at the last completion
    w_last              \* idx of the last completion, -1 before the first

warnVars == << w_pc, w_results_dict, w_error_counts, w_total_before, w_warned, w_last >>

vars == << engineVars, retryVars, itemVars, evalVars, warnVars >>

Indices == 0 .. (NumItems - 1)

\* Positions at which the process of the current run is alive.
Alive == { "dispatch", "wait", "record", "ckpt_open", "ckpt_dump", "cleanup",
           "shutdown", "int_dump" }

\* Positions at which no process is running; a new run may be started.
Stopped == { "idle", "returned", "interrupted", "name_error", "load_error", "crashed",
             "worker_error", "config_error" }

(* --------------------------- pure functions ---------------------------- *)

\* What the request of generate_queries does: it yields the queries of the
\* search tool calls of the answer (none when no search is triggered), or an
\* exception exc is raised by the request or by the reading of the answer.
GenerationOk(queries) == [ ok |-> TRUE, queries |-> queries, exc |-> "" ]

GenerationFails(exc) == [ ok |-> FALSE, queries |-> << >>, exc |-> exc ]

\* Variant: generate_queries has no except clause.
GenerationCaught_none(exc) == FALSE

\* except Exception as e: in generate_queries.
GenerationCaught(exc) ==
    exc \in { "HTTPStatusError", "TimeoutException", "ConnectError", "ValueError", "KeyError" }

\* generate_queries raises: the exception of the request is not caught.
GenerationRaises(outcome) == ~outcome.ok /\ ~GenerationCaught(outcome.exc)

\* What generate_queries returns: return queries, or return [] in the except clause.
GenerateQueriesReturn(outcome) == IF outcome.ok THEN outcome.queries ELSE << >>

\* The query generator of the engine's runs, deterministic in the item: the
\* request fails for every sixth item, triggers no search for every third.
QueryGeneratorOracle(i) ==
    IF i % 6 = 0 THEN GenerationFails("ConnectError")
    ELSE GenerationOk([ q \in 1 .. (i % 3) |-> (i * 3) + q ])

\* The search queries generated for work item i.
GenerateQueries(i) == GenerateQueriesReturn(QueryGeneratorOracle(i))

\* A key that a dict does not hold (qr.get(key) is None).
NoKey == "<no key>"

\* What safeguard_client.check does for one query: it returns a CheckResult
\* (violation, pii_types, which may be None) or raises exc with str(e) = error.
SafeguardOk(violation, types, none) ==
    [ ok |-> TRUE, violation |-> violation, pii_types |-> types, types_none |-> none,
      exc |-> "", error |-> "" ]

SafeguardFails(exc, msg) ==
    [ ok |-> FALSE, violation |-> FALSE, pii_types |-> << >>, types_none |-> FALSE,
      exc |-> exc, error |-> msg ]

\* What labeler.label_pii does for one query: it returns (contains_pii,
\* explanation) or raises exc with str(e) = error.
LabelerOk(contains_pii) ==
    [ ok |-> TRUE, contains_pii |-> contains_pii, exc |-> "", error |-> "" ]

LabelerFails(exc, msg) ==
    [ ok |-> FALSE, contains_pii |-> FALSE, exc |-> exc, error |-> msg ]

\* The exceptions the clients raise; all are subclasses of Exception.
ExceptionClasses ==
    { "HTTPStatusError", "TimeoutException", "ConnectError", "ValueError", "KeyError" }

\* Variant: except ValueError.
CaughtByExcept_valueError(exc) == exc = "ValueError"

\* except Exception as e: around check and around label_pii.
CaughtByExcept(exc) == exc \in ExceptionClasses

\* check_result.pii_types or ["unknown"]
DetectedTypes(sg) ==
    IF sg.types_none \/ sg.pii_types = << >> THEN << "unknown" >> ELSE sg.pii_types

high_severity_types == { "ssn", "credit_card", "account", "password", "medical_id" }

\* The severity of a flagged query.
Severity(detected_types) ==
    IF \E k \in 1 .. Len(detected_types) : detected_types[k] \in high_severity_types
    THEN "high"
    ELSE IF Len(detected_types) > 1 THEN "high"
    ELSE IF detected_types = << "unknown" >> THEN "low"
    ELSE "medium"

\* The query_result dict built for one query (the free-text rationale and
\* explanation are left out).
QueryResult(query, sg, lb) ==
    [ query |-> query,
      safeguard_flagged |-> IF sg.ok THEN sg.violation ELSE FALSE,
      ground_truth_pii |-> IF lb.ok THEN lb.contains_pii ELSE FALSE,
      pii_types |-> IF sg.ok /\ sg.violation THEN DetectedTypes(sg) ELSE << >>,
      severity |-> IF sg.ok /\ sg.violation THEN Severity(DetectedTypes(sg)) ELSE "none",
      safeguard_error |-> IF sg.ok THEN NoKey ELSE sg.error,
      labeler_error |-> IF lb.ok THEN NoKey ELSE lb.error ]

\* process_single_item raises: an exception of check or label_pii is not caught.
ProcessRaises(answers) ==
    \E q \in 1 .. Len(answers) :
        \/ ~answers[q].sg.ok /\ ~CaughtByExcept(answers[q].sg.exc)
        \/ ~answers[q].lb.ok /\ ~CaughtByExcept(answers[q].lb.exc)

\* The result dict of process_single_item for item idx with the given queries,
\* answers[q] being what the classifier and the labeler do for query q.
ProcessItem(idx, queries, answers) ==
    [ idx |-> idx,
      triggered_search |-> Len(queries) > 0,
      queries |-> queries,
      query_results |->
          [ q \in 1 .. Len(queries) |-> QueryResult(queries[q], answers[q].sg, answers[q].lb) ] ]

\* The classifier and the labeler of the engine's runs, deterministic in the query.
SafeguardOracle(query) ==
    CASE query % 7 = 4 -> SafeguardFails("TimeoutException", "")
      [] query % 7 = 0 -> SafeguardOk(TRUE, << "ssn" >>, FALSE)
      [] query % 7 = 1 -> SafeguardFails("ValueError", "No choices in response")
      [] query % 7 = 6 -> SafeguardOk(TRUE, << "email" >>, FALSE)
      [] OTHER -> SafeguardOk(FALSE, << >>, FALSE)

LabelerOracle(query) ==
    CASE query % 7 = 4 -> LabelerOk(TRUE)
      [] query % 7 = 0 -> LabelerFails("HTTPStatusError", "Server error '503'")
      [] query % 7 = 1 -> LabelerFails("TimeoutException", "")
      [] query % 7 = 6 -> LabelerOk(TRUE)
      [] query % 7 = 3 -> LabelerOk(TRUE)
      [] OTHER -> LabelerOk(FALSE)

OracleAnswers(queries) ==
    [ q \in 1 .. Len(queries) |->
        [ sg |-> SafeguardOracle(queries[q]), lb |-> LabelerOracle(queries[q]) ] ]

\* The worker of item i ends with an exception instead of a result.
ItemRaises(i) ==
    \/ GenerationRaises(QueryGeneratorOracle(i))
    \/ ProcessRaises(OracleAnswers(GenerateQueries(i)))

\* process_single_item: the result of work item i.
ProcessSingleItem(i) == ProcessItem(i, GenerateQueries(i), OracleAnswers(GenerateQueries(i)))

\* The files the disk can hold at the checkpoint path.
NoFile == [ kind |-> "absent", last_index |-> 0, results |-> << >> ]

\* open(checkpoint_file, "w") truncates; until json.dump has finished and the
\* file is closed the disk holds an empty or cut-off JSON text.
Truncated == [ kind |-> "partial", last_index |-> 0, results |-> << >> ]

\* json.dump({"last_index": contiguous, "results": ordered_results}, f)
JsonDump(contiguous, ordered_results) ==
    [ kind |-> "checkpoint", last_index |-> contiguous, results |-> ordered_results ]

\* Variant: the filter idx >= start_index is left out.
ItemsToProcess_all(start) == [ k \in 1 .. NumItems |-> k - 1 ]

\* Variant: the filter is idx > start_index.
ItemsToProcess_after(start) ==
    IF start + 1 >= NumItems THEN << >>
    ELSE [ k \in 1 .. (NumItems - start - 1) |-> start + k ]

\* items_to_process: the indices idx >= start_index, in enumeration order.
ItemsToProcess(start) ==
    IF start >= NumItems THEN << >>
    ELSE [ k \in 1 .. (NumItems - start) |-> start + k - 1 ]

\* Variant: the completed set starts empty in a resumed run too.
InitialCompleted_empty(start) == {}

\* completed_indices = set(range(start_index))
InitialCompleted(start) == 0 .. (start - 1)

RECURSIVE ScanFrom(_, _)
ScanFrom(completed, idx) ==
    IF idx \in completed THEN ScanFrom(completed, idx + 1) ELSE idx

\* Variant: one past the highest completed index.
GetContiguousCompleted_latest(completed) ==
    IF completed = {} THEN 0
    ELSE (CHOOSE m \in completed : \A k \in completed : k <= m) + 1

\* Variant: the number of completed indices.
GetContiguousCompleted_count(completed) == Cardinality(completed)

\* get_contiguous_completed: scan forward from 0 while idx is completed.
GetContiguousCompleted(completed) == ScanFrom(completed, 0)

\* Variant: enumerate(results, 1).
Enumerate_from1(rs) == [ i \in 1 .. Len(rs) |-> rs[i] ]

\* {i: r for i, r in enumerate(results)}
Enumerate(rs) == [ i \in 0 .. (Len(rs) - 1) |-> rs[i + 1] ]

RECURSIVE ListWhere(_, _, _)
ListWhere(rd, i, stop) ==
    IF i >= stop THEN << >>
    ELSE IF i \in DOMAIN rd THEN << rd[i] >> \o ListWhere(rd, i + 1, stop)
    ELSE ListWhere(rd, i + 1, stop)

\* Variant: every recorded result is written, not only those below the frontier.
OrderedResults_all(rd, contiguous) == ListWhere(rd, 0, NumItems)

\* Variant: range(contiguous + 1).
OrderedResults_upTo(rd, contiguous) == ListWhere(rd, 0, contiguous + 1)

\* [results_dict[i] for i in range(contiguous) if i in results_dict]
OrderedResults(rd, contiguous) == ListWhere(rd, 0, contiguous)

\* [results_dict[i] for i in sorted(results_dict.keys())]
SortedResults(rd) == ListWhere(rd, 0, NumItems)

\* Variant: checkpoint_file is not tested.
CheckpointDue_always(enabled, contiguous, start) ==
    contiguous > start /\ contiguous % checkpoint_interval = 0

\* The condition of the periodic checkpoint.
CheckpointDue(enabled, contiguous, start) ==
    enabled /\ contiguous > start /\ contiguous % checkpoint_interval = 0

Queued  == { i \in Indices : futures[i] = "queued" }
Running == { i \in Indices : futures[i] = "running" }

\* Variant: a future that was handed out is handed out again.
AsCompletedReady_again(i) == futures[i] \in { "done", "yielded" }

\* as_completed(futures) can hand out the future of i.
AsCompletedReady(i) == futures[i] = "done"

\* Variant: the loop ends only when a future of every work item was handed out.
AsCompletedExhausted_all == \A i \in Indices : futures[i] = "yielded"

\* as_completed(futures) is exhausted: every submitted future was handed out.
AsCompletedExhausted == \A i \in Indices : futures[i] \in { "none", "yielded" }

\* A float that is a quotient of two integers (den = 0: not a number).
Ratio(n, d) == [ num |-> n, den |-> d ]

RAdd(x, y) == Ratio((x.num * y.den) + (y.num * x.den), x.den * y.den)

RMul(x, y) == Ratio(x.num * y.num, x.den * y.den)

RDiv(x, y) == Ratio(x.num * y.den, x.den * y.num)

RIsZero(x) == x.num = 0 /\ x.den # 0

RPositive(x) == x.num > 0 /\ x.den > 0

RInt(n) == Ratio(n, 1)

RECURSIVE Flatten(_)
\* The elements of the sequences of a sequence, in order.
Flatten(ss) == IF ss = << >> THEN << >> ELSE Head(ss) \o Flatten(Tail(ss))

\* The (predicted, actual) pair that calculate_e2e_metrics reads from a query result.
Predicted(qr) == qr.safeguard_flagged

Actual(qr) == qr.ground_truth_pii

\* precision = 100.0 / recall = 100.0 of the else branches.
E2EZeroDivision == RInt(100)

\* calculate_e2e_metrics, without the per-type and per-language tables.
\* true_positives and true_negatives are the function's local counters.
CalculateE2EMetrics(rs, total_conversations) ==
    LET qrs == Flatten([ k \in 1 .. Len(rs) |-> rs[k].query_results ])
        Cell(p, a) == Cardinality({ k \in 1 .. Len(qrs) :
                          Predicted(qrs[k]) = p /\ Actual(qrs[k]) = a })
        tp == Cell(TRUE, TRUE)
        fp == Cell(TRUE, FALSE)
        fn == Cell(FALSE, TRUE)
        tn == Cell(FALSE, FALSE)
        precision == IF tp + fp > 0 THEN Ratio(100 * tp, tp + fp) ELSE E2EZeroDivision
        recall == IF tp + fn > 0 THEN Ratio(100 * tp, tp + fn) ELSE E2EZeroDivision
        f1 == IF RPositive(RAdd(precision, recall))
              THEN RDiv(RMul(RInt(2), RMul(precision, recall)), RAdd(precision, recall))
              ELSE RInt(0)
    IN  [ total_conversations |-> total_conversations,
          total_user_turns |-> Len(rs),
          turns_triggering_search |->
              Cardinality({ k \in 1 .. Len(rs) : rs[k].triggered_search }),
          total_queries_generated |-> Len(Flatten([ k \in 1 .. Len(rs) |-> rs[k].queries ])),
          queries_with_pii_ground_truth |-> tp + fn,
          safeguard_precision |-> precision,
          safeguard_recall |-> recall,
          safeguard_f1 |-> f1,
          false_positives |-> fp,
          false_negatives |-> fn,
          true_positives |-> tp,
          true_negatives |-> tn,
          severity_breakdown |->
              [ sev \in { "high", "medium", "low", "none" } |->
                  Cardinality({ k \in 1 .. Len(qrs) :
                      Predicted(qrs[k]) /\ Actual(qrs[k]) /\ qrs[k].severity = sev }) ] ]

\* precision_score / recall_score(..., zero_division=0) on an empty denominator.
ZeroDivision == RInt(0)

\* Variant: beta is ignored (the F1 formula).
FBetaScore_f1(precision, recall, beta) ==
    IF RIsZero(RAdd(precision, recall))
    THEN RInt(0)
    ELSE RDiv(RMul(RInt(2), RMul(precision, recall)), RAdd(precision, recall))

\* fbeta_score of metrics.py.
FBetaScore(precision, recall, beta) ==
    IF RIsZero(RAdd(precision, recall))
    THEN RInt(0)
    ELSE RDiv(RMul(RInt(1 + (beta * beta)), RMul(precision, recall)),
              RAdd(RMul(RInt(beta * beta), precision), recall))

\* calculate_metrics of metrics.py (accuracy of no sample is 0/0).
CalculateMetrics(yt, yp) ==
    LET Cell(a, p) == Cardinality({ k \in 1 .. Len(yt) : yt[k] = a /\ yp[k] = p })
        tp == Cell(TRUE, TRUE)
        fp == Cell(FALSE, TRUE)
        fn == Cell(TRUE, FALSE)
        tn == Cell(FALSE, FALSE)
        precision == IF tp + fp > 0 THEN Ratio(tp, tp + fp) ELSE ZeroDivision
        recall == IF tp + fn > 0 THEN Ratio(tp, tp + fn) ELSE ZeroDivision
    IN  [ accuracy |-> Ratio(tp + tn, Len(yt)),
          precision |-> precision,
          recall |-> recall,
          f1 |-> IF (2 * tp) + fp + fn > 0 THEN Ratio(2 * tp, (2 * tp) + fp + fn)
                 ELSE ZeroDivision,
          f2 |-> FBetaScore(precision, recall, 2),
          true_positives |-> tp,
          true_negatives |-> tn,
          false_positives |-> fp,
          false_negatives |-> fn,
          total_samples |-> Len(yt) ]

\* if qr.get("safeguard_error"): the key is present and its string is not empty.
Truthy(str) == str # NoKey /\ str # ""

\* error_counts = {"safeguard": 0, "labeler": 0}
NoErrors == [ safeguard |-> 0, labeler |-> 0 ]

\* for qr in result.get("query_results", []): error_counts[...] += 1
TrackErrors(counts, result) ==
    LET qrs == result.query_results
    IN  [ safeguard |-> counts.safeguard
                          + Cardinality({ q \in 1 .. Len(qrs) : Truthy(qrs[q].safeguard_error) }),
          labeler |-> counts.labeler
                          + Cardinality({ q \in 1 .. Len(qrs) : Truthy(qrs[q].labeler_error) }) ]

RECURSIVE SumQueries(_, _)
\* The sum of len(r["query_results"]) over the results of rd at the indices S.
SumQueries(rd, S) ==
    IF S = {} THEN 0
    ELSE LET i == CHOOSE j \in S : TRUE
         IN  Len(rd[i].query_results) + SumQueries(rd, S \ { i })

\* total_queries = sum(len(r.get("query_results", [])) for r in results_dict.values() if r)
TotalQueries(rd) == SumQueries(rd, DOMAIN rd)

\* if total_queries > 0 and total_queries % 100 == 0:
WarningDue(total_queries) == total_queries > 0 /\ total_queries % 100 = 0

\* error_counts[kind] / total_queries > 0.1
RateExceeds(count, total_queries) == count * 10 > total_queries

\* The kinds of the warnings printed after a completion.
Warnings(counts, total_queries) ==
    IF WarningDue(total_queries)
    THEN { kind \in { "safeguard", "labeler" } : RateExceeds(counts[kind], total_queries) }
    ELSE {}

(* ------------------------------ initial -------------------------------- *)

\* No exception: the value None of last_error.
NoError == [ kind |-> "none", code |-> 0 ]

\* No client call has been started.
RetryIdle ==
    /\ r_pc = "idle"
    /\ r_client = "labeler"
    /\ attempt = 0
    /\ last_error = NoError
    /\ wait_log = << >>
    /\ trace = << >>
    /\ raised = NoError

\* The engine before its first run.
EngineInit ==
    /\ pc = "idle"
    /\ run = 0
    /\ checkpoint_file = TRUE
    /\ file = NoFile
    /\ start_index = 0
    /\ results = << >>
    /\ results_dict = << >>
    /\ results_dict_bound = FALSE
    /\ completed_indices = {}
    /\ items_to_process = << >>
    /\ futures = [ i \in Indices |-> "none" ]
    /\ cur = 0
    /\ api_key = TRUE
    /\ exit_code = -1
    /\ error_counts = NoErrors
    /\ warned = {}

\* No item has been processed.
ItemIdle ==
    /\ i_pc = "idle"
    /\ oracle = << >>
    /\ item_result = ProcessItem(0, << >>, << >>)
    /\ e2e_metrics = CalculateE2EMetrics(<< >>, 0)

\* No evaluation has been started.
EvalIdle ==
    /\ e_pc = "idle"
    /\ eval_type = "pii"
    /\ arbiter = FALSE
    /\ calls = << >>
    /\ y_true = << >>
    /\ y_pred = << >>
    /\ detailed_results = << >>
    /\ error_count = 0
    /\ arbiter_calls = 0
    /\ arbiter_overrides = 0
    /\ metrics = CalculateMetrics(<< >>, << >>)

\* No completion loop has been started.
WarnIdle ==
    /\ w_pc = "idle"
    /\ w_results_dict = << >>
    /\ w_error_counts = NoErrors
    /\ w_total_before = 0
    /\ w_warned = {}
    /\ w_last = -1

Init ==
    /\ EngineInit
    /\ RetryIdle
    /\ ItemIdle
    /\ EvalIdle
    /\ WarnIdle

(* ------------------------------ actions -------------------------------- *)

\* Variant: the API key is looked at only when a request is made.
MissingCredential_lazy(key) == FALSE

\* SafeguardClient.__init__: if not self.api_key: raise ValueError(...)
MissingCredential(key) == ~key

\* The process starts (main): the clients are built, then run_e2e_pii_eval
\* starts and loads the checkpoint, when there is one.
StartRun(enabled, key) ==
    /\ pc \in Stopped
    /\ UNCHANGED << retryVars, itemVars, evalVars, warnVars >>
    /\ run < MaxRuns
    /\ run' = run + 1
    /\ api_key' = key
    /\ checkpoint_file' = enabled
    /\ results_dict' = << >>
    /\ results_dict_bound' = FALSE
    /\ futures' = [ i \in Indices |-> "none" ]
    /\ cur' = 0
    /\ error_counts' = NoErrors
    /\ warned' = {}
    /\ UNCHANGED file
    /\ IF MissingCredential(key)
       THEN \* except ValueError: sys.exit(1), before run_e2e_pii_eval is called
            /\ pc' = "config_error"
            /\ exit_code' = 1
            /\ start_index' = 0
            /\ results' = << >>
            /\ completed_indices' = {}
            /\ items_to_process' = << >>
       ELSE IF enabled /\ file.kind = "partial"
       THEN \* json.load raises on the cut-off text: the run ends here
            /\ pc' = "load_error"
            /\ exit_code' = 1
            /\ start_index' = 0
            /\ results' = << >>
            /\ completed_indices' = {}
            /\ items_to_process' = << >>
       ELSE /\ pc' = "dispatch"
            /\ exit_code' = -1
            /\ start_index' = IF enabled /\ file.kind = "checkpoint" THEN file.last_index ELSE 0
            /\ results' = IF enabled /\ file.kind = "checkpoint" THEN file.results ELSE << >>
            /\ completed_indices' = InitialCompleted(start_index')
            /\ items_to_process' = ItemsToProcess(start_index')

\* executor.submit(process_single_item, item, ...) for the next item.
Submit ==
    /\ pc = "dispatch"
    /\ UNCHANGED << retryVars, itemVars, evalVars, warnVars >>
    /\ items_to_process # << >>
    /\ futures' = [ futures EXCEPT ![Head(items_to_process)] = "queued" ]
    /\ items_to_process' = Tail(items_to_process)
    /\ UNCHANGED << api_key, exit_code, error_counts, warned, pc, run, checkpoint_file, file, start_index, results, results_dict,
                    results_dict_bound, completed_indices, cur >>

\* results_dict = {i: r for i, r in enumerate(results)}
BindResultsDict ==
    /\ pc = "dispatch"
    /\ UNCHANGED << retryVars, itemVars, evalVars, warnVars >>
    /\ items_to_process = << >>
    /\ results_dict' = Enumerate(results)
    /\ results_dict_bound' = TRUE
    /\ pc' = "wait"
    /\ UNCHANGED << api_key, exit_code, error_counts, warned, run, checkpoint_file, file, start_index, results,
                    completed_indices, items_to_process, futures, cur >>

\* Variant: a thread is started for every queued work item.
WorkerStart_unbounded ==
    /\ pc \in Alive
    /\ UNCHANGED << retryVars, itemVars, evalVars, warnVars >>
    /\ Queued # {}
    /\ LET i == CHOOSE j \in Queued : \A k \in Queued : j <= k
       IN  futures' = [ futures EXCEPT ![i] = "running" ]
    /\ UNCHANGED << api_key, exit_code, error_counts, warned, pc, run, checkpoint_file, file, start_index, results, results_dict,
                    results_dict_bound, completed_indices, items_to_process, cur >>

\* A free worker thread takes the oldest queued work item.
WorkerStart ==
    /\ pc \in Alive
    /\ UNCHANGED << retryVars, itemVars, evalVars, warnVars >>
    /\ Queued # {}
    /\ Cardinality(Running) < num_workers
    /\ LET i == CHOOSE j \in Queued : \A k \in Queued : j <= k
       IN  futures' = [ futures EXCEPT ![i] = "running" ]
    /\ UNCHANGED << api_key, exit_code, error_counts, warned, pc, run, checkpoint_file, file, start_index, results, results_dict,
                    results_dict_bound, completed_indices, items_to_process, cur >>

\* Variant: the worker thread adds its index to completed_indices itself.
WorkerFinish_records(i) ==
    /\ pc \in Alive
    /\ UNCHANGED << retryVars, itemVars, evalVars, warnVars >>
    /\ futures[i] = "running"
    /\ futures' = [ futures EXCEPT ![i] = "done" ]
    /\ completed_indices' = completed_indices \cup { i }
    /\ UNCHANGED << api_key, exit_code, error_counts, warned, pc, run, checkpoint_file, file, start_index, results, results_dict,
                    results_dict_bound, items_to_process, cur >>

\* process_single_item returns on a worker thread.
WorkerFinish(i) ==
    /\ pc \in Alive
    /\ UNCHANGED << retryVars, itemVars, evalVars, warnVars >>
    /\ futures[i] = "running"
    /\ futures' = [ futures EXCEPT ![i] = "done" ]
    /\ UNCHANGED << api_key, exit_code, error_counts, warned, pc, run, checkpoint_file, file, start_index, results, results_dict,
                    results_dict_bound, completed_indices, items_to_process, cur >>

\* as_completed hands out a finished future; idx, result = future.result();
\* results_dict[idx] = result.
TakeCompleted(i) ==
    /\ pc = "wait"
    /\ UNCHANGED << retryVars, itemVars, evalVars, warnVars >>
    /\ AsCompletedReady(i)
    /\ futures' = [ futures EXCEPT ![i] = "yielded" ]
    /\ IF ItemRaises(i)
       THEN \* future.result() re-raises the worker's exception: the run ends
            /\ pc' = "worker_error"
            /\ exit_code' = 1
            /\ UNCHANGED << cur, results_dict >>
       ELSE /\ cur' = i
            /\ results_dict' = (i :> ProcessSingleItem(i)) @@ results_dict
            /\ pc' = "record"
            /\ UNCHANGED exit_code
    /\ UNCHANGED << api_key, error_counts, warned, run, checkpoint_file, file, start_index, results,
                    results_dict_bound, completed_indices, items_to_process >>

\* completed_indices.add(idx), then the frontier and the checkpoint condition.
RecordCompletion ==
    /\ pc = "record"
    /\ UNCHANGED << retryVars, itemVars, evalVars, warnVars >>
    /\ completed_indices' = completed_indices \cup { cur }
    /\ error_counts' = TrackErrors(error_counts, results_dict[cur])
    /\ warned' = Warnings(error_counts', TotalQueries(results_dict))
    /\ pc' = IF CheckpointDue(checkpoint_file,
                              GetContiguousCompleted(completed_indices'), start_index)
             THEN "ckpt_open" ELSE "wait"
    /\ UNCHANGED << api_key, exit_code, run, checkpoint_file, file, start_index, results, results_dict,
                    results_dict_bound, items_to_process, futures, cur >>

\* open(checkpoint_file, "w") of the periodic checkpoint.
OpenCheckpoint ==
    /\ pc = "ckpt_open"
    /\ UNCHANGED << retryVars, itemVars, evalVars, warnVars >>
    /\ file' = Truncated
    /\ pc' = "ckpt_dump"
    /\ UNCHANGED << api_key, exit_code, error_counts, warned, run, checkpoint_file, start_index, results, results_dict,
                    results_dict_bound, completed_indices, items_to_process, futures, cur >>

\* json.dump of the periodic checkpoint, and close.
DumpCheckpoint ==
    /\ pc = "ckpt_dump"
    /\ UNCHANGED << retryVars, itemVars, evalVars, warnVars >>
    /\ LET contiguous == GetContiguousCompleted(completed_indices)
       IN  file' = JsonDump(contiguous, OrderedResults(results_dict, contiguous))
    /\ pc' = "wait"
    /\ UNCHANGED << api_key, exit_code, error_counts, warned, run, checkpoint_file, start_index, results, results_dict,
                    results_dict_bound, completed_indices, items_to_process, futures, cur >>

\* The loop over as_completed ends; results = [results_dict[i] for i in sorted(...)].
ExitLoop ==
    /\ pc = "wait"
    /\ UNCHANGED << retryVars, itemVars, evalVars, warnVars >>
    /\ AsCompletedExhausted
    /\ results' = SortedResults(results_dict)
    /\ pc' = "cleanup"
    /\ UNCHANGED << api_key, exit_code, error_counts, warned, run, checkpoint_file, file, start_index, results_dict,
                    results_dict_bound, completed_indices, items_to_process, futures, cur >>

\* Variant: the checkpoint file is left in place on return.
CleanUp_keep ==
    /\ pc = "cleanup"
    /\ UNCHANGED << retryVars, itemVars, evalVars, warnVars >>
    /\ pc' = "returned"
    /\ exit_code' = 0
    /\ UNCHANGED << api_key, error_counts, warned, run, checkpoint_file, file, start_index, results, results_dict,
                    results_dict_bound, completed_indices, items_to_process, futures, cur >>

\* Metrics, then the checkpoint file is unlinked, then return; main ends and
\* the process exits with status 0.
CleanUp ==
    /\ pc = "cleanup"
    /\ UNCHANGED << retryVars, itemVars, evalVars, warnVars >>
    /\ file' = IF checkpoint_file /\ file.kind # "absent" THEN NoFile ELSE file
    /\ pc' = "returned"
    /\ exit_code' = 0
    /\ UNCHANGED << api_key, error_counts, warned, run, checkpoint_file, start_index, results, results_dict,
                    results_dict_bound, completed_indices, items_to_process, futures, cur >>

\* KeyboardInterrupt is raised in the main thread inside the try block; leaving
\* the executor's with block waits for the submitted work items.
Interrupt ==
    /\ pc \in { "dispatch", "wait", "record", "ckpt_open", "ckpt_dump" }
    /\ UNCHANGED << retryVars, itemVars, evalVars, warnVars >>
    /\ pc' = "shutdown"
    /\ UNCHANGED << api_key, exit_code, error_counts, warned, run, checkpoint_file, file, start_index, results, results_dict,
                    results_dict_bound, completed_indices, items_to_process, futures, cur >>

\* Variant: the interrupt path writes only at a multiple of the interval.
InterruptHandler_periodic ==
    /\ pc = "shutdown"
    /\ UNCHANGED << retryVars, itemVars, evalVars, warnVars >>
    /\ Queued = {} /\ Running = {}
    /\ LET contiguous == GetContiguousCompleted(completed_indices)
       IN  IF ~CheckpointDue(checkpoint_file, contiguous, start_index)
           THEN pc' = "interrupted" /\ exit_code' = 130 /\ UNCHANGED file
           ELSE IF contiguous > 0 /\ ~results_dict_bound
           THEN pc' = "name_error" /\ exit_code' = 1 /\ UNCHANGED file
           ELSE pc' = "int_dump" /\ file' = Truncated /\ UNCHANGED exit_code
    /\ UNCHANGED << api_key, error_counts, warned, run, checkpoint_file, start_index, results, results_dict,
                    results_dict_bound, completed_indices, items_to_process, futures, cur >>

\* except KeyboardInterrupt: the frontier, ordered_results and open(..., "w").
InterruptHandler ==
    /\ pc = "shutdown"
    /\ UNCHANGED << retryVars, itemVars, evalVars, warnVars >>
    /\ Queued = {} /\ Running = {}
    /\ LET contiguous == GetContiguousCompleted(completed_indices)
       IN  IF ~checkpoint_file
           THEN pc' = "interrupted" /\ exit_code' = 130 /\ UNCHANGED file
           ELSE IF contiguous > 0 /\ ~results_dict_bound
           THEN pc' = "name_error" /\ exit_code' = 1 /\ UNCHANGED file
           ELSE pc' = "int_dump" /\ file' = Truncated /\ UNCHANGED exit_code
    /\ UNCHANGED << api_key, error_counts, warned, run, checkpoint_file, start_index, results, results_dict,
                    results_dict_bound, completed_indices, items_to_process, futures, cur >>

\* Variant: the interrupt path removes the checkpoint file instead of writing it.
InterruptDump_unlink ==
    /\ pc = "int_dump"
    /\ UNCHANGED << retryVars, itemVars, evalVars, warnVars >>
    /\ file' = NoFile
    /\ pc' = "interrupted"
    /\ exit_code' = 130
    /\ UNCHANGED << api_key, error_counts, warned, run, checkpoint_file, start_index, results, results_dict,
                    results_dict_bound, completed_indices, items_to_process, futures, cur >>

\* json.dump of the checkpoint of the interrupt path, close, and re-raise: the
\* process ends on the KeyboardInterrupt (status 130).
InterruptDump ==
    /\ pc = "int_dump"
    /\ UNCHANGED << retryVars, itemVars, evalVars, warnVars >>
    /\ LET contiguous == GetContiguousCompleted(completed_indices)
       IN  file' = JsonDump(contiguous, OrderedResults(results_dict, contiguous))
    /\ pc' = "interrupted"
    /\ exit_code' = 130
    /\ UNCHANGED << api_key, error_counts, warned, run, checkpoint_file, start_index, results, results_dict,
                    results_dict_bound, completed_indices, items_to_process, futures, cur >>

\* The process dies (kill, power loss) at any step; the disk keeps what it
\* holds (status 137 of a killed process).
Crash ==
    /\ pc \in Alive
    /\ UNCHANGED << retryVars, itemVars, evalVars, warnVars >>
    /\ pc' = "crashed"
    /\ exit_code' = 137
    /\ UNCHANGED << api_key, error_counts, warned, run, checkpoint_file, file, start_index, results, results_dict,
                    results_dict_bound, completed_indices, items_to_process, futures, cur >>

Next ==
    \/ \E enabled \in BOOLEAN, key \in BOOLEAN : StartRun(enabled, key)
    \/ Submit
    \/ BindResultsDict
    \/ WorkerStart
    \/ \E i \in Indices : WorkerFinish(i)
    \/ \E i \in Indices : TakeCompleted(i)
    \/ RecordCompletion
    \/ OpenCheckpoint
    \/ DumpCheckpoint
    \/ ExitLoop
    \/ CleanUp
    \/ Interrupt
    \/ InterruptHandler
    \/ InterruptDump
    \/ Crash

Spec == Init /\ [][Next]_vars

\* The steps of the main thread and of the worker threads of a process that
\* is running: the start of a process, the interrupt and the kill are not
\* among them.
Progress ==
    \/ Submit
    \/ BindResultsDict
    \/ WorkerStart
    \/ \E i \in Indices : WorkerFinish(i)
    \/ \E i \in Indices : TakeCompleted(i)
    \/ RecordCompletion
    \/ OpenCheckpoint
    \/ DumpCheckpoint
    \/ ExitLoop
    \/ CleanUp

\* A running process goes on: the pool schedules its worker threads, the main
\* thread is scheduled, and every external call returns or raises (each HTTP
\* request has a timeout and the retry loop is bounded).
Fairness == WF_vars(Progress)

\* The runs of the engine under fair scheduling.
LiveSpec == Init /\ [][Next]_vars /\ Fairness

(* ------------------ client calls (evals/client.py) --------------------- *)

\* max_retries of LabelerClient._call_api.
max_retries == 5

\* What the server can answer to one httpx.post: an HTTP error status, a
\* timeout, a refused connection, a 200 whose body is not the expected JSON
\* envelope ("bad_body"), a 200 whose JSON content lacks a required field
\* ("bad_schema"), or a good answer.
StatusCodes == { 400, 429, 500, 502, 503, 504 }

Responses ==
    { [ kind |-> "status", code |-> c ] : c \in StatusCodes }
    \cup { [ kind |-> k, code |-> 0 ] : k \in { "timeout", "connect" } }
    \cup { [ kind |-> k, code |-> 200 ] : k \in { "bad_body", "bad_schema", "ok" } }

\* Variant: 500 is retried as well.
IsRetriedStatus_with500(code) == code \in { 500, 502, 503, 504, 429 }

\* e.response.status_code in (502, 503, 504, 429)
IsRetriedStatus(code) == code \in { 502, 503, 504, 429 }

\* wait_time = (2 ** attempt) * 2 + 1 in the except httpx.HTTPStatusError clause.
WaitTimeStatus(a) == (2 ^ a) * 2 + 1

\* Variant: the + 1 is missing in the second clause.
WaitTimeConnect_noplus(a) == (2 ^ a) * 2

\* wait_time = (2 ** attempt) * 2 + 1 in the except (TimeoutException, ConnectError) clause.
WaitTimeConnect(a) == (2 ^ a) * 2 + 1

\* Variant: range(max_retries + 1).
LoopContinues_incl(next) == next <= max_retries

\* for attempt in range(max_retries): there is a next iteration.
LoopContinues(next) == next < max_retries

\* label_pii / label_injection call _call_api; SafeguardClient.check is called.
StartCall(c) ==
    /\ r_pc = "idle"
    /\ UNCHANGED << engineVars, itemVars, evalVars, warnVars >>
    /\ r_pc' = "post"
    /\ r_client' = c
    /\ attempt' = 0
    /\ last_error' = NoError
    /\ wait_log' = << >>
    /\ trace' = << >>
    /\ raised' = NoError

\* One iteration of the retry loop of _call_api up to return, raise or the
\* computation of wait_time; a returned dict without the required field
\* raises KeyError in label_pii / label_injection.
LabelerAttempt(resp) ==
    /\ r_pc = "post"
    /\ r_client = "labeler"
    /\ UNCHANGED << engineVars, itemVars, evalVars, warnVars >>
    /\ trace' = Append(trace, resp)
    /\ UNCHANGED << r_client, attempt, wait_log >>
    /\ CASE resp.kind = "ok" ->
              r_pc' = "returned" /\ UNCHANGED << last_error, raised >>
         [] resp.kind \in { "bad_body", "bad_schema" } ->
              r_pc' = "raised" /\ raised' = resp /\ UNCHANGED last_error
         [] resp.kind = "status" ->
              /\ last_error' = resp
              /\ IF IsRetriedStatus(resp.code)
                 THEN r_pc' = "sleep" /\ UNCHANGED raised
                 ELSE r_pc' = "raised" /\ raised' = resp
         [] resp.kind \in { "timeout", "connect" } ->
              /\ last_error' = resp
              /\ r_pc' = "sleep"
              /\ UNCHANGED raised

\* Variant: the last iteration raises without sleeping.
Backoff_skipLast ==
    /\ r_pc = "sleep"
    /\ UNCHANGED << engineVars, itemVars, evalVars, warnVars >>
    /\ wait_log' = IF LoopContinues(attempt + 1)
                   THEN Append(wait_log, IF last_error.kind = "status"
                                         THEN WaitTimeStatus(attempt)
                                         ELSE WaitTimeConnect(attempt))
                   ELSE wait_log
    /\ attempt' = attempt + 1
    /\ IF LoopContinues(attempt + 1)
       THEN r_pc' = "post" /\ UNCHANGED raised
       ELSE r_pc' = "raised" /\ raised' = last_error
    /\ UNCHANGED << r_client, last_error, trace >>

\* time.sleep(wait_time); continue; after the last iteration raise last_error.
Backoff ==
    /\ r_pc = "sleep"
    /\ UNCHANGED << engineVars, itemVars, evalVars, warnVars >>
    /\ wait_log' = Append(wait_log, IF last_error.kind = "status"
                                    THEN WaitTimeStatus(attempt)
                                    ELSE WaitTimeConnect(attempt))
    /\ attempt' = attempt + 1
    /\ IF LoopContinues(attempt + 1)
       THEN r_pc' = "post" /\ UNCHANGED raised
       ELSE r_pc' = "raised" /\ raised' = last_error
    /\ UNCHANGED << r_client, last_error, trace >>

\* SafeguardClient.check: one httpx.post, raise_for_status, parsing of the body.
SafeguardCheck(resp) ==
    /\ r_pc = "post"
    /\ r_client = "safeguard"
    /\ UNCHANGED << engineVars, itemVars, evalVars, warnVars >>
    /\ trace' = Append(trace, resp)
    /\ IF resp.kind = "ok"
       THEN r_pc' = "returned" /\ UNCHANGED raised
       ELSE r_pc' = "raised" /\ raised' = resp
    /\ UNCHANGED << r_client, attempt, last_error, wait_log >>

RetryNext ==
    \/ \E c \in { "labeler", "safeguard" } : StartCall(c)
    \/ \E resp \in Responses : LabelerAttempt(resp)
    \/ Backoff
    \/ \E resp \in Responses : SafeguardCheck(resp)

RetrySpec == Init /\ [][RetryNext]_vars

(* ------- one work item and its scoring (evals/run_e2e_pii_eval.py) ------ *)

\* The largest number of queries of the work item.
MaxQueries == 2

\* What the classifier can do for a query.
SafeguardOutcomes ==
    { SafeguardOk(FALSE, << >>, FALSE),
      SafeguardOk(TRUE, << >>, TRUE),
      SafeguardOk(TRUE, << >>, FALSE),
      SafeguardOk(TRUE, << "ssn" >>, FALSE),
      SafeguardOk(TRUE, << "email" >>, FALSE),
      SafeguardOk(TRUE, << "name", "email" >>, FALSE),
      SafeguardOk(TRUE, << "email", "email" >>, FALSE),
      SafeguardOk(TRUE, << "unknown" >>, FALSE),
      SafeguardFails("TimeoutException", ""),
      SafeguardFails("ValueError", "No choices in response") }

\* What the labeler can do for a query.
LabelerOutcomes ==
    { LabelerOk(TRUE), LabelerOk(FALSE),
      LabelerFails("HTTPStatusError", "Server error '503'") }

\* generate_queries returned n queries; the clients will answer as in answers.
DrawItem(answers) ==
    /\ i_pc = "idle"
    /\ UNCHANGED << engineVars, retryVars, evalVars, warnVars >>
    /\ oracle' = answers
    /\ i_pc' = "ready"
    /\ UNCHANGED << item_result, e2e_metrics >>

\* process_single_item on the item.
RunProcessSingleItem ==
    /\ i_pc = "ready"
    /\ UNCHANGED << engineVars, retryVars, evalVars, warnVars >>
    /\ IF ProcessRaises(oracle)
       THEN i_pc' = "raised" /\ UNCHANGED item_result
       ELSE /\ item_result' = ProcessItem(0, [ q \in 1 .. Len(oracle) |-> q ], oracle)
            /\ i_pc' = "processed"
    /\ UNCHANGED << oracle, e2e_metrics >>

\* calculate_e2e_metrics on the list that holds the item's result.
RunCalculateE2EMetrics ==
    /\ i_pc = "processed"
    /\ UNCHANGED << engineVars, retryVars, evalVars, warnVars >>
    /\ e2e_metrics' = CalculateE2EMetrics(<< item_result >>, 1)
    /\ i_pc' = "scored"
    /\ UNCHANGED << oracle, item_result >>

ItemNext ==
    \/ \E n \in 0 .. MaxQueries :
           \E answers \in [ 1 .. n -> [ sg : SafeguardOutcomes, lb : LabelerOutcomes ] ] :
               DrawItem(answers)
    \/ RunProcessSingleItem
    \/ RunCalculateE2EMetrics

ItemSpec == Init /\ [][ItemNext]_vars

(* ------------- sample evaluations (evals/run_eval.py) ------------------ *)

\* The largest number of samples of the dataset.
MaxSamples == 3

\* What client.check can do for a sample.
CheckOutcomes ==
    { SafeguardOk(TRUE, << >>, FALSE), SafeguardOk(FALSE, << >>, FALSE),
      SafeguardFails("TimeoutException", "") }

\* What arbiter.arbitrate can do: classifier_correct is true or false, or it raises.
ArbiterOutcomes == { "correct", "incorrect", "raised" }

\* Variant: the verdict is not tested.
AskArbiter_anyViolation(arb, expected, predicted) == arb /\ expected

\* Variant: the arbiter is asked about every disagreement.
AskArbiter_anyDisagreement(arb, expected, predicted) == arb /\ expected # predicted

\* if arbiter and expected and not predicted:
AskArbiter(arb, expected, predicted) == arb /\ expected /\ ~predicted

\* Variant: the label is overridden whenever the arbiter answered.
Overrides_always(outcome) == outcome \in { "correct", "incorrect" }

\* if classifier_correct:
Overrides(outcome) == outcome = "correct"

\* Variant: the exception of arbiter.arbitrate is not caught in the inner try.
ArbiterCaught_none(outcome) == FALSE

\* except Exception as e: around arbiter.arbitrate.
ArbiterCaught(outcome) == outcome = "raised"

\* Variant: the except branch scores the failed sample as safe as well.
OnError_append(ys, v) == Append(ys, v)

\* The except branch of the loop body appends nothing to y_true and y_pred.
OnError(ys, v) == ys

\* The body of the for loop for one sample with dataset label `label`.
EvalSample(label, check, arb) ==
    LET asked == check.ok /\ AskArbiter(arbiter, label, check.violation)
        escapes == asked /\ arb = "raised" /\ ~ArbiterCaught(arb)
        expected == IF asked /\ Overrides(arb) THEN FALSE ELSE label
    IN  /\ calls' = Append(calls, [ label |-> label, check |-> check,
                                    arbitrate |-> IF asked THEN arb ELSE "none" ])
        /\ arbiter_calls' = IF asked THEN arbiter_calls + 1 ELSE arbiter_calls
        /\ arbiter_overrides' =
               IF asked /\ Overrides(arb) THEN arbiter_overrides + 1 ELSE arbiter_overrides
        /\ IF check.ok /\ ~escapes
           THEN /\ y_true' = Append(y_true, expected)
                /\ y_pred' = Append(y_pred, check.violation)
                /\ detailed_results' = Append(detailed_results,
                       [ dataset_label |-> label,
                         expected |-> expected,
                         predicted |-> check.violation,
                         correct |-> (expected = check.violation),
                         arbiter |-> IF ~asked THEN "None"
                                     ELSE IF arb = "raised" THEN "error" ELSE arb,
                         error |-> NoKey ])
                /\ UNCHANGED error_count
           ELSE /\ error_count' = error_count + 1
                /\ detailed_results' = Append(detailed_results,
                       [ dataset_label |-> NoKey,
                         expected |-> label,
                         predicted |-> "None",
                         correct |-> FALSE,
                         arbiter |-> NoKey,
                         error |-> IF check.ok THEN "arbiter" ELSE check.error ])
                /\ y_true' = OnError(y_true, label)
                /\ y_pred' = OnError(y_pred, FALSE)

\* run_pii_eval or run_prompt_injection_eval is called.
StartEval(t, arb) ==
    /\ e_pc = "idle"
    /\ UNCHANGED << engineVars, retryVars, itemVars, warnVars >>
    /\ eval_type' = t
    /\ arbiter' = arb
    /\ e_pc' = "loop"
    /\ UNCHANGED << calls, y_true, y_pred, detailed_results, error_count,
                    arbiter_calls, arbiter_overrides, metrics >>

\* One iteration of the loop of run_prompt_injection_eval.
RunPromptInjectionEvalSample(label, check, arb) ==
    /\ e_pc = "loop"
    /\ UNCHANGED << engineVars, retryVars, itemVars, warnVars >>
    /\ eval_type = "injection"
    /\ Len(calls) < MaxSamples
    /\ EvalSample(label, check, arb)
    /\ UNCHANGED << e_pc, eval_type, arbiter, metrics >>

\* One iteration of the loop of run_pii_eval.
RunPiiEvalSample(label, check, arb) ==
    /\ e_pc = "loop"
    /\ UNCHANGED << engineVars, retryVars, itemVars, warnVars >>
    /\ eval_type = "pii"
    /\ Len(calls) < MaxSamples
    /\ EvalSample(label, check, arb)
    /\ UNCHANGED << e_pc, eval_type, arbiter, metrics >>

\* The samples are exhausted: metrics = calculate_metrics(y_true, y_pred).
FinishEval ==
    /\ e_pc = "loop"
    /\ UNCHANGED << engineVars, retryVars, itemVars, warnVars >>
    /\ metrics' = CalculateMetrics(y_true, y_pred)
    /\ e_pc' = "done"
    /\ UNCHANGED << eval_type, arbiter, calls, y_true, y_pred, detailed_results,
                    error_count, arbiter_calls, arbiter_overrides >>

EvalNext ==
    \/ \E t \in { "pii", "injection" }, arb \in BOOLEAN : StartEval(t, arb)
    \/ \E label \in BOOLEAN, check \in CheckOutcomes, arb \in ArbiterOutcomes :
           RunPromptInjectionEvalSample(label, check, arb)
    \/ \E label \in BOOLEAN, check \in CheckOutcomes, arb \in ArbiterOutcomes :
           RunPiiEvalSample(label, check, arb)
    \/ FinishEval

EvalSpec == Init /\ [][EvalNext]_vars

(* ---- error tracking of the completion loop (run_e2e_pii_eval.py) ------ *)

\* The largest number of results in the result set.
MaxTracked == 3

\* The largest number of results loaded from the checkpoint.
MaxLoaded == 1

\* The numbers of queries a work item can have.
ItemSizes == { 1, 50, 99 }

\* What the classifier and the labeler do for every query of a work item.
ItemAnswers ==
    { [ sg |-> SafeguardOk(FALSE, << >>, FALSE), lb |-> LabelerOk(FALSE) ],
      [ sg |-> SafeguardFails("ValueError", "No choices in response"), lb |-> LabelerOk(TRUE) ],
      [ sg |-> SafeguardOk(TRUE, << "email" >>, FALSE),
        lb |-> LabelerFails("HTTPStatusError", "Server error '503'") ] }

\* The result of process_single_item for a work item with n queries that are
\* all answered in the same way.
UniformItem(idx, n, answer) ==
    ProcessItem(idx, [ q \in 1 .. n |-> q ], [ q \in 1 .. n |-> answer ])

\* The shapes of a work item, as pairs of a size and an answer.
ItemShapes == ItemSizes \X ItemAnswers

\* The run starts: results is what the checkpoint held (nothing in a fresh
\* run), error_counts is reset, results_dict = {i: r for i, r in enumerate(results)}.
WarnStart(loaded) ==
    /\ w_pc = "idle"
    /\ UNCHANGED << engineVars, retryVars, itemVars, evalVars >>
    /\ w_results_dict' =
           Enumerate([ k \in 1 .. Len(loaded) |-> UniformItem(k - 1, loaded[k][1], loaded[k][2]) ])
    /\ w_error_counts' = NoErrors
    /\ w_total_before' = 0
    /\ w_warned' = {}
    /\ w_last' = -1
    /\ w_pc' = "loop"

\* One completion: results_dict[idx] = result, the error tracking and the
\* warning.
WarnRecord(shape) ==
    /\ w_pc = "loop"
    /\ UNCHANGED << engineVars, retryVars, itemVars, evalVars >>
    /\ Cardinality(DOMAIN w_results_dict) < MaxTracked
    /\ LET idx == Cardinality(DOMAIN w_results_dict)
           result == UniformItem(idx, shape[1], shape[2])
       IN  /\ w_results_dict' = (idx :> result) @@ w_results_dict
           /\ w_error_counts' = TrackErrors(w_error_counts, result)
           /\ w_last' = idx
    /\ w_total_before' = TotalQueries(w_results_dict)
    /\ w_warned' = Warnings(w_error_counts', TotalQueries(w_results_dict'))
    /\ UNCHANGED w_pc

WarnNext ==
    \/ \E n \in 0 .. MaxLoaded : \E loaded \in [ 1 .. n -> ItemShapes ] : WarnStart(loaded)
    \/ \E shape \in ItemShapes : WarnRecord(shape)

WarnSpec == Init /\ [][WarnNext]_vars

(* ------------------------------ properties ----------------------------- *)

\* The least index that is not in S, stated without a scan.
LeastMissing(S) ==
    CHOOSE c \in 0 .. NumItems :
        /\ c \notin (S \cap Indices)
        /\ \A i \in 0 .. (c - 1) : i \in S

\* The state of a work item in the terms pending, dispatched, completed: an item
\* is completed once its worker has returned or its index is in completed_indices.
ItemState(i) ==
    IF i \in completed_indices \/ futures[i] \in { "done", "yielded" } THEN "completed"
    ELSE IF futures[i] \in { "queued", "running" } THEN "dispatched"
    ELSE "pending"

\* A checkpoint holds exactly last_index results, the i-th being that of item i.
GapFree(f) ==
    /\ Len(f.results) = f.last_index
    /\ \A i \in 0 .. (f.last_index - 1) : f.results[i + 1].idx = i

\* What an uninterrupted run over the same items returns.
UninterruptedResults == [ k \in 1 .. NumItems |-> ProcessSingleItem(k - 1) ]

\* C1: every complete checkpoint file on disk, written periodically or on
\* interrupt, in a fresh or a resumed run, has exactly last_index results and
\* its entry i is the result of work item i.
C1_CheckpointHasNoGaps ==
    file.kind = "checkpoint" => GapFree(file)

\* C1 witness: a resumed run wrote a checkpoint beyond its resume index while an
\* item further on had completed ahead of the frontier.
C1_Witness ==
    /\ file.kind = "checkpoint"
    /\ start_index > 0
    /\ file.last_index > start_index
    /\ \E i \in completed_indices : i > file.last_index

\* C2: in a run of the engine using the checkpoint file, every work item below
\* the persisted last_index is completed: none of them is pending or
\* dispatched (a process that exits on a missing credential runs no engine).
C2_PersistedIndexIsFrontier ==
    (checkpoint_file /\ file.kind = "checkpoint" /\ pc # "config_error") =>
        \A i \in Indices : i < file.last_index => ItemState(i) = "completed"

\* C2 witness: a checkpoint is on disk, a later item is already recorded, and
\* the item at the persisted index is still outstanding.
C2_Witness ==
    /\ checkpoint_file
    /\ file.kind = "checkpoint"
    /\ file.last_index \in Indices
    /\ ItemState(file.last_index) # "completed"
    /\ \E i \in completed_indices : i > file.last_index

\* C3: get_contiguous_completed returns the least index that is not in the
\* completed set, and 2 for the completed set {0,1,3,4}.
C3_FrontierIsLeastMissing ==
    /\ GetContiguousCompleted(completed_indices) = LeastMissing(completed_indices)
    /\ completed_indices = { 0, 1, 3, 4 } => GetContiguousCompleted(completed_indices) = 2

\* C3 witness: indices 0, 1, 3 and 4 are recorded while 2 is still executing.
C3_Witness ==
    /\ completed_indices = { 0, 1, 3, 4 }
    /\ futures[2] = "running"
    /\ pc = "wait"

\* C4: a run resumed from a checkpoint with last_index k has start_index k,
\* submits exactly the items with index >= k, never gives an item below k to
\* the pool, and item k is the first one a worker executes.
C4_ResumeDispatchesFromCheckpoint ==
    /\ (pc = "dispatch" /\ checkpoint_file /\ file.kind = "checkpoint")
          => start_index = file.last_index
    /\ \A i \in Indices : i < start_index => futures[i] = "none"
    /\ (pc \notin { "idle", "load_error", "config_error" }) =>
          { i \in Indices : futures[i] # "none" }
             \cup { items_to_process[k] : k \in 1 .. Len(items_to_process) }
          = { i \in Indices : i >= start_index }
    /\ (\E i \in Indices : futures[i] \in { "running", "done", "yielded" })
          => (start_index \in Indices
                /\ futures[start_index] \in { "running", "done", "yielded" })

\* C4 witness: a run resumed at index 2 has executed item 2 and left 0 and 1 alone.
C4_Witness ==
    /\ start_index = 2
    /\ pc = "wait"
    /\ futures[2] = "yielded"
    /\ futures[0] = "none" /\ futures[1] = "none"
    /\ \A i \in Indices : i >= 2 => futures[i] # "none"

\* C5: a run resumed from a checkpoint that returns, returns the result list
\* of an uninterrupted run over the same items.
C5_ResumeIsIdempotent ==
    (pc = "returned" /\ start_index > 0) => results = UninterruptedResults

\* C5 witness: the third run, resumed at the odd frontier 3 that only an
\* interrupt checkpoint can leave, has returned.
C5_Witness ==
    /\ pc = "returned"
    /\ run = 3
    /\ start_index = 3

\* C6: a run that returns, fresh or resumed, returns one result per index
\* 0..N-1 in index order.
C6_OneResultPerIndex ==
    pc = "returned" =>
        /\ Len(results) = NumItems
        /\ \A k \in 1 .. NumItems : results[k].idx = k - 1

\* C6 witness: a fresh run has returned all its results.
C6_Witness ==
    /\ pc = "returned"
    /\ start_index = 0
    /\ Len(results) = NumItems

\* C7: when a run with checkpointing enabled has left by the interrupt path, the
\* file on disk is a complete gap-free checkpoint whose last_index is the
\* contiguous frontier of the completions recorded.
C7_InterruptLeavesCheckpoint ==
    (pc \in { "interrupted", "name_error" } /\ checkpoint_file) =>
        /\ file.kind = "checkpoint"
        /\ GapFree(file)
        /\ file.last_index = LeastMissing(completed_indices)

\* C7 witness: an interrupted run left a checkpoint at frontier 3 with a
\* result recorded beyond it.
C7_Witness ==
    /\ pc = "interrupted"
    /\ checkpoint_file
    /\ file.kind = "checkpoint"
    /\ file.last_index = 3
    /\ \E i \in completed_indices : i > 3

\* C8: whenever no process is running (after a crash in particular) the file
\* on disk is absent or a complete checkpoint, never an empty or cut-off one.
C8_WriteIsAllOrNothing ==
    pc \in Stopped => file.kind \in { "absent", "checkpoint" }

\* C9: after a run with a checkpoint path has returned, no checkpoint file exists.
C9_NoCheckpointAfterReturn ==
    (pc = "returned" /\ checkpoint_file) => file.kind = "absent"

\* C9 witness: a run that loaded a checkpoint at 2 (and wrote one at 4) has returned.
C9_Witness ==
    /\ pc = "returned"
    /\ checkpoint_file
    /\ start_index = 2
    /\ file.kind = "absent"

StateRank(s) == IF s = "pending" THEN 0 ELSE IF s = "dispatched" THEN 1 ELSE 2

ItemStateNext(i) ==
    IF i \in completed_indices' \/ futures'[i] \in { "done", "yielded" } THEN "completed"
    ELSE IF futures'[i] \in { "queued", "running" } THEN "dispatched"
    ELSE "pending"

\* C10: within one run no item moves backward through pending, dispatched,
\* completed; an item is submitted only if it has no future and is not
\* completed; and a result is recorded only for an index not recorded before.
C10_ItemsMoveForward ==
    [][ run' = run =>
          /\ \A i \in Indices :
                /\ StateRank(ItemStateNext(i)) >= StateRank(ItemState(i))
                /\ (futures'[i] = "queued" /\ futures[i] # "queued")
                      => (futures[i] = "none" /\ i \notin completed_indices)
                /\ futures[i] \in { "done", "yielded" }
                      => futures'[i] \in { "done", "yielded" }
          /\ (pc = "wait" /\ pc' = "record")
                => (cur' \notin DOMAIN results_dict /\ cur' \notin completed_indices)
      ]_vars

\* C10 witness: in one run an item is recorded while others are finished,
\* executing and queued.
C10_Witness ==
    /\ pc = "wait"
    /\ futures[0] = "yielded" /\ 0 \in completed_indices
    /\ \E i \in Indices : futures[i] = "done"
    /\ \E i \in Indices : futures[i] = "running"
    /\ \E i \in Indices : futures[i] = "queued"

\* The classifier or the labeler fails for some query of item i.
HasFailedCall(i) ==
    \E q \in 1 .. Len(GenerateQueries(i)) :
        ~SafeguardOracle(GenerateQueries(i)[q]).ok \/ ~LabelerOracle(GenerateQueries(i)[q]).ok

\* C11: a failure of the classifier call or of the labeler call for a query
\* of an item never leaves process_single_item: no run ends on a worker's
\* exception; the item's result carries its index and safeguard_error /
\* labeler_error on exactly the queries whose call failed; and once the loop
\* has recorded the item it is in the completed set and, when everything
\* before it is complete, the frontier is past it.
C11_ItemFailuresAreRecorded ==
    /\ pc # "worker_error"
    /\ \A i \in DOMAIN results_dict :
          /\ results_dict[i].idx = i
          /\ Len(results_dict[i].query_results) = Len(GenerateQueries(i))
          /\ \A q \in 1 .. Len(GenerateQueries(i)) :
                /\ (results_dict[i].query_results[q].safeguard_error # NoKey)
                      <=> ~SafeguardOracle(GenerateQueries(i)[q]).ok
                /\ (results_dict[i].query_results[q].labeler_error # NoKey)
                      <=> ~LabelerOracle(GenerateQueries(i)[q]).ok
    /\ \A i \in Indices :
          (/\ HasFailedCall(i)
           /\ futures[i] = "yielded"
           /\ pc \in { "wait", "ckpt_open", "ckpt_dump", "cleanup", "returned" })
          => /\ i \in completed_indices
             /\ (\A j \in 0 .. i : j \in completed_indices)
                   => GetContiguousCompleted(completed_indices) > i

\* C11 witness: item 2, whose first query fails in the labeler and whose
\* second query fails in both calls, has been recorded with both errors and
\* the frontier of the run has gone past it.
C11_Witness ==
    /\ pc = "wait"
    /\ start_index = 0
    /\ futures[2] = "yielded"
    /\ 2 \in DOMAIN results_dict
    /\ results_dict[2].query_results[1].labeler_error # NoKey
    /\ results_dict[2].query_results[2].safeguard_error # NoKey
    /\ results_dict[2].query_results[2].labeler_error # NoKey
    /\ GetContiguousCompleted(completed_indices) > 2

\* A transient failure: HTTP status 429, 502, 503 or 504, a timeout or a
\* refused connection.
TransientResp(r) ==
    \/ r.kind = "status" /\ r.code \in { 429, 502, 503, 504 }
    \/ r.kind \in { "timeout", "connect" }

\* The first n answers of the call were all transient failures.
AllTransient(n) == \A k \in 1 .. n : TransientResp(trace[k])

\* C12: one call of LabelerClient._call_api makes at most 5 requests; k <= 4
\* transient failures followed by a good answer return after k + 1 requests;
\* and 5 transient failures in a row raise the last of them after exactly 5
\* requests.
C12_AtMostFiveAttempts ==
    r_client = "labeler" =>
        /\ Len(trace) <= 5
        /\ (/\ trace # << >>
            /\ trace[Len(trace)].kind = "ok"
            /\ AllTransient(Len(trace) - 1))
           => (r_pc = "returned" /\ Len(trace) - 1 <= 4)
        /\ (Len(trace) = 5 /\ AllTransient(5) /\ r_pc \notin { "sleep" })
           => (r_pc = "raised" /\ raised = trace[5])
        /\ (r_pc = "raised" /\ AllTransient(Len(trace)))
           => Len(trace) = 5

\* C12 witness: four transient failures and then a good answer, returned
\* after the fifth request.
C12_Witness ==
    /\ r_client = "labeler"
    /\ r_pc = "returned"
    /\ Len(trace) = 5
    /\ AllTransient(4)
    /\ trace[5].kind = "ok"

\* C12 witness of the ceiling: five transient failures, the last one raised.
C12_WitnessExhausted ==
    /\ r_client = "labeler"
    /\ r_pc = "raised"
    /\ Len(trace) = 5
    /\ AllTransient(5)
    /\ raised = trace[5]

\* The last answer of the call is a non-transient failure.
LastIsNonTransient ==
    /\ trace # << >>
    /\ trace[Len(trace)].kind # "ok"
    /\ ~TransientResp(trace[Len(trace)])

\* C13: in the retry loop a non-transient outcome (an HTTP status other than
\* 429, 502, 503, 504, or a malformed or schema-violating body) is raised on
\* the attempt where it occurs: that error is what the caller gets, no wait
\* follows it and no further request is made, also after transient failures.
C13_NonTransientRaisesAtOnce ==
    (r_client = "labeler" /\ LastIsNonTransient) =>
        /\ r_pc = "raised"
        /\ raised = trace[Len(trace)]
        /\ Len(wait_log) = Len(trace) - 1
        /\ AllTransient(Len(trace) - 1)

\* C13 witness: two transient failures and then a status 500, raised on the
\* third attempt after two waits.
C13_Witness ==
    /\ r_client = "labeler"
    /\ r_pc = "raised"
    /\ Len(trace) = 3
    /\ AllTransient(2)
    /\ trace[3] = [ kind |-> "status", code |-> 500 ]
    /\ raised = trace[3]
    /\ Len(wait_log) = 2

\* The successive waits of the retry policy, in seconds.
Waits == << 3, 5, 9, 17, 33 >>

\* C14: the wait after the transient failure of attempt a (a = 0..4) is
\* 2^a * 2 + 1 seconds, that is 3, 5, 9, 17, 33, for HTTP-status failures and
\* for timeout and connection failures alike.
C14_BackoffSchedule ==
    r_client = "labeler" =>
        /\ Len(wait_log) <= 5
        /\ \A k \in 1 .. Len(wait_log) :
              /\ wait_log[k] = Waits[k]
              /\ wait_log[k] = (2 ^ (k - 1)) * 2 + 1
              /\ TransientResp(trace[k])

\* C14 witness: five waits, after status failures and after timeout or
\* connection failures.
C14_Witness ==
    /\ r_client = "labeler"
    /\ wait_log = Waits
    /\ \E k \in 1 .. 5 : trace[k].kind = "status"
    /\ trace[5].kind \in { "timeout", "connect" }

\* C15 (as claimed): a classification call that fails transiently is retried
\* up to the ceiling, so it raises a transient failure only after 5 requests.
C15_CheckIsRetried ==
    (r_client = "safeguard" /\ r_pc = "raised" /\ TransientResp(raised))
        => Len(trace) = 5

\* Sample k was classified: client.check returned a verdict.
Classified(k) == calls[k].check.ok

\* The arbiter was called for sample k.
Arbitrated(k) == calls[k].arbitrate # "none"

\* The position of sample k in y_true / y_pred when every classified sample
\* is scored.
Pos(k) == Cardinality({ j \in 1 .. k : Classified(j) })

\* The samples seen so far that satisfy P.
Samples(P(_)) == { k \in 1 .. Len(calls) : P(k) }

\* C16: the arbiter is called for a sample if and only if arbitration is
\* enabled, the classification succeeded, the dataset label is violation and
\* the verdict is safe; it is called at most once per sample, and
\* arbiter_calls counts exactly these samples.
C16_ArbiterOnlyOnMissedViolation ==
    /\ \A k \in 1 .. Len(calls) :
          Arbitrated(k) <=>
              (/\ arbiter
               /\ Classified(k)
               /\ calls[k].label
               /\ ~calls[k].check.violation)
    /\ arbiter_calls = Cardinality(Samples(Arbitrated))
    /\ arbiter_calls <= Len(calls)

\* C16 witness: with the arbiter enabled, a run saw a missed violation that
\* was arbitrated, and a false alarm, a caught violation and a failed
\* classification that were not.
C16_Witness ==
    /\ e_pc = "done"
    /\ arbiter
    /\ Len(calls) = 3
    /\ \E k \in 1 .. 3 : Arbitrated(k)
    /\ \E k \in 1 .. 3 : ~Arbitrated(k) /\ Classified(k) /\ ~calls[k].label
                          /\ calls[k].check.violation
    /\ \E k \in 1 .. 3 : ~Arbitrated(k) /\ ~Classified(k) /\ calls[k].label

\* The adjudicated expected label of sample k.
Adjudicated(k) == IF calls[k].arbitrate = "correct" THEN FALSE ELSE calls[k].label

OverriddenSample(k) == calls[k].arbitrate = "correct"

UpheldSample(k) == calls[k].arbitrate = "incorrect"

ScoredTrueNegative(k) == Classified(k) /\ ~Adjudicated(k) /\ ~calls[k].check.violation

ScoredFalseNegative(k) == Classified(k) /\ Adjudicated(k) /\ ~calls[k].check.violation

\* C17: a sample with dataset label violation and verdict safe for which the
\* arbiter answers classifier_correct = true is scored with expected label
\* safe, as a true negative, and counted as one override; with
\* classifier_correct = false it stays a false negative.
C17_OverrideTurnsFalseNegativeIntoTrueNegative ==
    /\ \A k \in 1 .. Len(calls) :
          (OverriddenSample(k) \/ UpheldSample(k)) =>
              /\ Pos(k) <= Len(y_true)
              /\ Pos(k) <= Len(y_pred)
              /\ y_pred[Pos(k)] = FALSE
              /\ y_true[Pos(k)] = UpheldSample(k)
    /\ arbiter_overrides = Cardinality(Samples(OverriddenSample))
    /\ e_pc = "done" =>
          /\ metrics.true_negatives = Cardinality(Samples(ScoredTrueNegative))
          /\ metrics.false_negatives = Cardinality(Samples(ScoredFalseNegative))

\* C17 witness: two missed violations, one overridden by the arbiter and one
\* upheld, scored as one true negative and one false negative.
C17_Witness ==
    /\ e_pc = "done"
    /\ Len(calls) = 2
    /\ OverriddenSample(1)
    /\ UpheldSample(2)
    /\ arbiter_overrides = 1
    /\ metrics.true_negatives = 1
    /\ metrics.false_negatives = 1

ArbiterRaisedSample(k) == calls[k].arbitrate = "raised"

FailedSample(k) == ~Classified(k)

\* C18: when the arbiter call raises, the sample keeps its dataset label as
\* expected label, is appended to y_true / y_pred with the classifier's
\* verdict, is not counted as an override and is not counted as an
\* evaluation error.
C18_ArbiterFailureKeepsSample ==
    /\ Len(y_true) = Cardinality(Samples(Classified))
    /\ Len(y_pred) = Len(y_true)
    /\ error_count = Cardinality(Samples(FailedSample))
    /\ \A k \in 1 .. Len(calls) :
          ArbiterRaisedSample(k) =>
              /\ Pos(k) <= Len(y_true)
              /\ y_true[Pos(k)] = calls[k].label
              /\ y_pred[Pos(k)] = calls[k].check.violation
              /\ detailed_results[k].error = NoKey
              /\ detailed_results[k].expected = calls[k].label
              /\ detailed_results[k].arbiter = "error"
    /\ arbiter_overrides <= Cardinality(Samples(Arbitrated))
                               - Cardinality(Samples(ArbiterRaisedSample))

\* C18 witness: the arbiter raised for a missed violation, which is scored
\* as a false negative while the run counts no error and no override.
C18_Witness ==
    /\ e_pc = "done"
    /\ Len(calls) = 2
    /\ ArbiterRaisedSample(2)
    /\ Classified(1)
    /\ y_true[2] = TRUE
    /\ y_pred[2] = FALSE
    /\ error_count = 0
    /\ arbiter_overrides = 0
    /\ metrics.false_negatives >= 1

\* The number of samples or queries counted in the four cells of m.
CellTotal(m) ==
    m.true_positives + m.true_negatives + m.false_positives + m.false_negatives

\* The queries of the item whose classification call failed.
FailedQueries == { q \in 1 .. Len(oracle) : ~oracle[q].sg.ok }

\* run_pii_eval / run_prompt_injection_eval: a sample whose classification
\* failed is in no cell and is counted in error_count.
EvalErrorsOutsideMatrix ==
    e_pc = "done" =>
        /\ CellTotal(metrics) = Cardinality(Samples(Classified))
        /\ metrics.total_samples = CellTotal(metrics)
        /\ error_count = Cardinality(Samples(FailedSample))

\* calculate_e2e_metrics: a query that carries safeguard_error is in no cell.
E2EErrorsOutsideMatrix ==
    i_pc = "scored" =>
        CellTotal(e2e_metrics) = Len(oracle) - Cardinality(FailedQueries)

\* C19 (as claimed): an item whose classification call failed is in none of
\* the four confusion-matrix cells, in particular it is no true negative and
\* no false negative, both for the samples of run_pii_eval /
\* run_prompt_injection_eval and for the queries of calculate_e2e_metrics.
C19_ErrorsOutsideMatrix ==
    /\ EvalErrorsOutsideMatrix
    /\ E2EErrorsOutsideMatrix

\* calculate_metrics: precision and recall are 0 on an empty denominator.
EvalZeroDenominatorGivesZero ==
    e_pc = "done" =>
        /\ (metrics.true_positives + metrics.false_positives = 0)
              => RIsZero(metrics.precision)
        /\ (metrics.true_positives + metrics.false_negatives = 0)
              => RIsZero(metrics.recall)

\* calculate_e2e_metrics: precision and recall are 0 on an empty denominator.
E2EZeroDenominatorGivesZero ==
    i_pc = "scored" =>
        /\ (e2e_metrics.true_positives + e2e_metrics.false_positives = 0)
              => RIsZero(e2e_metrics.safeguard_precision)
        /\ (e2e_metrics.true_positives + e2e_metrics.false_negatives = 0)
              => RIsZero(e2e_metrics.safeguard_recall)

\* C20 (as claimed): calculate_metrics and calculate_e2e_metrics report
\* precision 0 when TP + FP = 0 and recall 0 when TP + FN = 0.
C20_ZeroDenominatorGivesZero ==
    /\ EvalZeroDenominatorGivesZero
    /\ E2EZeroDenominatorGivesZero

\* Two quotients are the same number.
REq(x, y) == x.den # 0 /\ y.den # 0 /\ x.num * y.den = y.num * x.den

\* C21: fbeta_score with beta = 2 returns (1 + 4) * P * R / (4 * P + R) for
\* the precision P and recall R of its inputs and 0 when P + R = 0; in
\* confusion counts this is 5*TP / (5*TP + 4*FN + FP) when TP > 0, so that
\* P = 1/2 and R = 1 give 5/6.
C21_F2FromCounts ==
    e_pc = "done" =>
        LET tp == Cardinality({ k \in 1 .. Len(y_true) : y_true[k] /\ y_pred[k] })
            fp == Cardinality({ k \in 1 .. Len(y_true) : ~y_true[k] /\ y_pred[k] })
            fn == Cardinality({ k \in 1 .. Len(y_true) : y_true[k] /\ ~y_pred[k] })
        IN  /\ tp > 0 => REq(metrics.f2, Ratio(5 * tp, (5 * tp) + (4 * fn) + fp))
            /\ tp = 0 => RIsZero(metrics.f2)
            /\ (tp = 1 /\ fp = 1 /\ fn = 0) => REq(metrics.f2, Ratio(5, 6))

\* C21 witness: one true positive and one false positive (P = 1/2, R = 1)
\* score F2 = 5/6.
C21_Witness ==
    /\ e_pc = "done"
    /\ y_true = << TRUE, FALSE >>
    /\ y_pred = << TRUE, TRUE >>
    /\ REq(metrics.precision, Ratio(1, 2))
    /\ REq(metrics.recall, Ratio(1, 1))
    /\ REq(metrics.f2, Ratio(5, 6))

\* The set of categories the classifier detected for a query: the entries of
\* pii_types, or the unnamed category when the list is empty or missing.
DetectedCategories(a) ==
    IF a.types_none \/ a.pii_types = << >>
    THEN { "unknown" }
    ELSE { a.pii_types[k] : k \in 1 .. Len(a.pii_types) }

HighRiskCategories == { "ssn", "credit_card", "account", "password", "medical_id" }

\* The severity tier of a set of detected categories.
SeverityOfCategories(cats) ==
    IF cats \cap HighRiskCategories # {} \/ Cardinality(cats) > 1 THEN "high"
    ELSE IF cats = { "unknown" } THEN "low"
    ELSE "medium"

\* C22 (as claimed): the severity of a flagged query is a function of the
\* set of its detected categories: high if a category is high-risk or there
\* is more than one category, low if the detection is unnamed (also for an
\* empty or missing list), medium for exactly one named category that is not
\* high-risk; a query that is not flagged or whose classification failed has
\* severity none.
C22_SeverityFromCategories ==
    i_pc \in { "processed", "scored" } =>
        \A q \in 1 .. Len(oracle) :
            item_result.query_results[q].severity =
                IF oracle[q].sg.ok /\ oracle[q].sg.violation
                THEN SeverityOfCategories(DetectedCategories(oracle[q].sg))
                ELSE "none"

\* The frontier moves from below a multiple m * checkpoint_interval beyond
\* the resume index to at or above it.
CrossesBoundary(before, after) ==
    \E m \in 1 .. NumItems :
        /\ m * checkpoint_interval > start_index
        /\ before < m * checkpoint_interval
        /\ m * checkpoint_interval <= after

\* C24 (as claimed): with checkpointing enabled, a completion that makes the
\* frontier cross a checkpoint-interval boundary beyond the resume index is
\* followed by a checkpoint write, also when the frontier jumps by more than
\* one index.
C24_CheckpointAtEveryCrossing ==
    [][ (/\ run' = run
         /\ pc = "record"
         /\ completed_indices' # completed_indices
         /\ checkpoint_file
         /\ CrossesBoundary(LeastMissing(completed_indices),
                            LeastMissing(completed_indices')))
        => pc' = "ckpt_open"
      ]_vars

\* C25 (as claimed): a periodic checkpoint write has a last_index strictly
\* greater than that of the checkpoint persisted before it: the same
\* frontier is never written twice.
C25_CheckpointFrontierGrows ==
    [][ (/\ run' = run
         /\ pc = "ckpt_open"
         /\ pc' = "ckpt_dump"
         /\ file.kind = "checkpoint")
        => file.last_index < LeastMissing(completed_indices)
      ]_vars

\* C26: a missing credential ends the process with a non-zero status before
\* the engine starts: no checkpoint is loaded, no work item is dispatched and
\* no file is written; and a run that completes exits with status 0 whatever
\* errors its items recorded.
C26_MissingCredentialIsFatal ==
    /\ [](/\ ~api_key => (pc = "config_error" /\ exit_code # 0)
          /\ pc = "config_error"
                => /\ \A i \in Indices : futures[i] = "none"
                   /\ items_to_process = << >>
                   /\ start_index = 0 /\ results = << >> /\ results_dict = << >>
          /\ pc = "returned" <=> exit_code = 0)
    /\ [][ pc' = "config_error" => file' = file ]_vars

\* C26 witness: the process found no credential and exited with status 1
\* while a checkpoint is on disk, which it neither loaded nor touched.
C26_Witness ==
    /\ pc = "config_error"
    /\ ~api_key
    /\ exit_code = 1
    /\ file.kind = "checkpoint"
    /\ start_index = 0

\* C26 witness of the second half: a run whose items recorded errors has
\* completed and exited with status 0.
C26_WitnessCompleted ==
    /\ pc = "returned"
    /\ exit_code = 0
    /\ error_counts.safeguard > 0
    /\ error_counts.labeler > 0

\* The work items handed out by as_completed whose completion is not yet
\* recorded in completed_indices.
BeingRecorded == { i \in Indices : futures[i] = "yielded" /\ i \notin completed_indices }

\* A worker thread made the step: a future went to running or to done.
WorkerStep ==
    \E i \in Indices : futures'[i] # futures[i] /\ futures'[i] \in { "running", "done" }

\* C27: the step that records a completion, recomputes the frontier and
\* possibly writes a checkpoint is made by one writer at a time: at most one
\* completion is being recorded, a new one is taken only when the previous
\* one is finished, and a step of a worker thread writes neither the result
\* set nor the completed set nor the error counters nor the file.
C27_SingleWriter ==
    /\ [](Cardinality(BeingRecorded) <= 1)
    /\ [][ run' = run =>
             /\ WorkerStep
                   => UNCHANGED << results_dict, completed_indices, error_counts, file >>
             /\ (\E i \in Indices : futures'[i] = "yielded" /\ futures[i] # "yielded")
                   => (pc = "wait" /\ BeingRecorded = {})
             /\ (completed_indices' # completed_indices \/ error_counts' # error_counts)
                   => (pc = "record" /\ completed_indices' = completed_indices \cup { cur })
         ]_vars

\* C27 witness: a completion is being recorded while two workers have
\* finished their items and another is executing.
C27_Witness ==
    /\ pc = "record"
    /\ BeingRecorded = { cur }
    /\ Cardinality({ i \in Indices : futures[i] = "done" }) >= 1
    /\ Cardinality({ i \in Indices : futures[i] = "running" }) >= 1

\* C28: the number of work items that a worker has started and not yet
\* completed is at most num_workers at every moment.
C28_AtMostNumWorkersExecuting ==
    Cardinality({ i \in Indices : futures[i] = "running" }) <= num_workers

\* C28 witness: the pool is full while a work item waits in the queue.
C28_Witness ==
    /\ Cardinality({ i \in Indices : futures[i] = "running" }) = num_workers
    /\ \E i \in Indices : futures[i] = "queued"

\* C29 (as claimed): once the interrupt has been observed, no work item that
\* is still waiting is started.
C29_NoStartAfterInterrupt ==
    [][ (run' = run /\ pc = "shutdown")
        => \A i \in Indices : futures[i] = "queued" => futures'[i] = "queued"
      ]_vars

\* The cumulative query count of the result set of the completion loop.
WarnTotal == TotalQueries(w_results_dict)

\* The last completion made the cumulative query count cross a multiple of 100.
CrossedHundred ==
    /\ w_last >= 0
    /\ \E m \in 1 .. MaxTracked : w_total_before < 100 * m /\ WarnTotal >= 100 * m

\* C23: whenever recording a completion makes the cumulative query count
\* cross a multiple of 100, a warning is emitted for exactly the kinds of
\* error whose running count exceeds 10% of the query count, and the loop
\* goes on.
C23_WarningAtEveryCrossing ==
    CrossedHundred =>
        /\ w_pc = "loop"
        /\ w_warned = { kind \in { "safeguard", "labeler" } :
                            RateExceeds(w_error_counts[kind], WarnTotal) }

\* The number of query results of the result set that carry an error of a kind.
ErrorsInResultSet(kind) ==
    LET Carrying(i) ==
            Cardinality({ q \in 1 .. Len(w_results_dict[i].query_results) :
                IF kind = "safeguard"
                THEN w_results_dict[i].query_results[q].safeguard_error # NoKey
                ELSE w_results_dict[i].query_results[q].labeler_error # NoKey })
        Sum[ n \in 0 .. MaxTracked + 1 ] ==
            IF n = 0 \/ (n - 1) \notin DOMAIN w_results_dict THEN 0
            ELSE Sum[n - 1] + Carrying(n - 1)
    IN  Sum[Cardinality(DOMAIN w_results_dict)]

\* C30: at every evaluation of the error-rate warning, the error count of
\* each kind equals the number of query results carrying that kind of error
\* among all results of the result set, those loaded from a checkpoint
\* included.
C30_NumeratorCoversResultSet ==
    (w_last >= 0 /\ WarningDue(WarnTotal)) =>
        \A kind \in { "safeguard", "labeler" } :
            w_error_counts[kind] = ErrorsInResultSet(kind)

\* The run has returned with every work item completed.
ReturnedComplete ==
    /\ pc = "returned"
    /\ completed_indices = Indices
    /\ LeastMissing(completed_indices) = NumItems
    /\ Len(results) = NumItems
    /\ exit_code = 0

\* C31: under fair scheduling, a run of the engine that is neither
\* interrupted nor killed eventually returns with all N work items completed
\* and the frontier at N, whichever classifier, labeler or query-generation
\* calls of its items fail.
C31_UninterruptedRunCompletes ==
    (pc = "dispatch") ~> (ReturnedComplete \/ pc \in { "shutdown", "crashed" })

\* C31 witness: a run has returned complete although calls of its items
\* failed in the classifier and in the labeler and items produced no query.
C31_Witness ==
    /\ ReturnedComplete
    /\ \E i \in Indices : HasFailedCall(i) /\ results[i + 1].query_results # << >>
    /\ \E i \in Indices : results[i + 1].queries = << >>
    /\ error_counts.safeguard + error_counts.labeler > 0

\* A run of the engine that uses the checkpoint file is under way or has ended.
EngineRunWithCheckpoint ==
    checkpoint_file /\ pc \notin { "idle", "config_error", "load_error" }

\* C32: during a run the contiguous frontier never decreases and is never
\* below the resume index; every write to the checkpoint file, periodic or on
\* interrupt, persists the frontier of that moment, so that the persisted
\* last_index never decreases from one write of the run to the next and is
\* never below the last_index loaded at start.
C32_FrontierAndLastIndexMonotone ==
    /\ [](pc \notin { "idle", "config_error", "load_error" }
             => LeastMissing(completed_indices) >= start_index)
    /\ [](EngineRunWithCheckpoint /\ file.kind = "checkpoint"
             => /\ start_index <= file.last_index
                /\ file.last_index <= LeastMissing(completed_indices))
    /\ [][ run' = run =>
             /\ start_index' = start_index
             /\ LeastMissing(completed_indices') >= LeastMissing(completed_indices)
             /\ (file' # file /\ file'.kind = "checkpoint")
                   => file'.last_index = LeastMissing(completed_indices')
         ]_vars

\* C32 witness: a run resumed from a checkpoint at index 2 was interrupted
\* and has replaced it by a checkpoint at its frontier 5.
C32_Witness ==
    /\ pc = "interrupted"
    /\ checkpoint_file
    /\ start_index = 2
    /\ file.kind = "checkpoint"
    /\ file.last_index = 5

\* The indices of the results a checkpoint holds.
PersistedIndices(f) == { f.results[k].idx : k \in 1 .. Len(f.results) }

\* C33: a checkpoint never holds the result of an item at or beyond its
\* last_index, although the run may have recorded such results; a run resumed
\* after an interrupt or a crash starts without them, dispatches those items
\* again, and every result it holds for an index at or beyond its resume
\* index is one that its own workers produced.
C33_AheadOfFrontierIsRedone ==
    /\ [](file.kind = "checkpoint" => \A i \in PersistedIndices(file) : i < file.last_index)
    /\ [](pc \in Alive \cup { "returned" } =>
             \A i \in DOMAIN results_dict :
                 IF i >= start_index THEN futures[i] = "yielded" ELSE futures[i] = "none")
    /\ [](pc = "returned" => \A i \in Indices : i >= start_index => futures[i] = "yielded")
    /\ [][ (run' = run + 1 /\ pc' = "dispatch" /\ checkpoint_file' /\ file.kind = "checkpoint")
           => \A i \in Indices :
                  i >= file.last_index =>
                      /\ i \in { items_to_process'[k] : k \in 1 .. Len(items_to_process') }
                      /\ i \notin completed_indices'
                      /\ i \notin DOMAIN results_dict'
                      /\ \A k \in 1 .. Len(results') : results'[k].idx # i
         ]_vars

\* C33 witness: an interrupted run that had recorded items 0, 2 and 3 left a
\* checkpoint at its frontier 1 that holds the result of item 0 only.
C33_Witness ==
    /\ pc = "interrupted"
    /\ checkpoint_file
    /\ { 0, 2, 3 } \subseteq completed_indices
    /\ { 2, 3 } \subseteq DOMAIN results_dict
    /\ file.kind = "checkpoint"
    /\ file.last_index = 1
    /\ PersistedIndices(file) = { 0 }

\* C34: the checkpoint file is removed only by the step that follows the
\* completion loop of a run with checkpointing enabled, when every one of the
\* N work items is completed and the full result list is built; it is never
\* removed on the interrupt path nor while an item is pending or dispatched.
C34_DeletedOnlyAfterCompletion ==
    [][ (file.kind # "absent" /\ file'.kind = "absent")
        => /\ pc = "cleanup" /\ pc' = "returned"
           /\ checkpoint_file
           /\ \A i \in Indices : ItemState(i) = "completed"
           /\ completed_indices = Indices
           /\ Len(results) = NumItems
      ]_vars

\* C34 witness: a run resumed from a checkpoint at index 4 has completed and
\* removed the file.
C34_Witness ==
    /\ pc = "returned"
    /\ checkpoint_file
    /\ start_index = 4
    /\ completed_indices = Indices
    /\ file.kind = "absent"

\* C35: a run with checkpointing disabled (checkpoint_file is None) neither
\* reads nor writes nor removes the checkpoint file, whatever the disk
\* holds: it starts at index 0 with nothing loaded, never enters a checkpoint
\* write, and on interrupt ends on the re-raised KeyboardInterrupt with the
\* file as it was.
C35_DisabledTouchesNoFile ==
    /\ [](~checkpoint_file =>
             /\ start_index = 0
             /\ pc \notin { "load_error", "ckpt_open", "ckpt_dump", "int_dump", "name_error" }
             /\ pc = "dispatch" => (results = << >> /\ completed_indices = {}))
    /\ [][ ~checkpoint_file' => file' = file ]_vars
    /\ [][ (~checkpoint_file /\ run' = run /\ pc = "shutdown" /\ pc' # "shutdown")
           => (pc' \in { "interrupted", "crashed" } /\ exit_code' \in { 130, 137 }) ]_vars

\* C35 witness: a run with checkpointing disabled, started while a checkpoint
\* at index 2 was on disk, recorded items 0 to 3 and was interrupted: the
\* file is the one it found.
C35_Witness ==
    /\ ~checkpoint_file
    /\ pc = "interrupted"
    /\ exit_code = 130
    /\ { 0, 1, 2, 3 } \subseteq completed_indices
    /\ file.kind = "checkpoint"
    /\ file.last_index = 2

\* The record of sample k is that of a scored sample.
ScoredRecord(k) == detailed_results[k].error = NoKey

\* The record of sample k is that of a sample that failed to evaluate.
ErrorRecord(k) == detailed_results[k].error # NoKey

\* C36: in run_pii_eval and run_prompt_injection_eval, after any sequence of
\* samples, detailed_results holds one record per sample in evaluation order;
\* every sample is either scored, with one entry in y_true and y_pred, or
\* counted as one error, never both and never neither; and the four cells of
\* the metrics add up to the number of scored samples, N - error_count.
C36_ScoredOrErrorExactlyOnce ==
    /\ Len(detailed_results) = Len(calls)
    /\ \A k \in 1 .. Len(calls) :
          /\ detailed_results[k].expected = Adjudicated(k)
          /\ ScoredRecord(k) <=> Classified(k)
          /\ ScoredRecord(k) => detailed_results[k].predicted = calls[k].check.violation
          /\ ErrorRecord(k) => detailed_results[k].predicted = "None"
    /\ Len(y_true) = Cardinality(Samples(ScoredRecord))
    /\ Len(y_pred) = Len(y_true)
    /\ error_count = Cardinality(Samples(ErrorRecord))
    /\ Len(y_true) + error_count = Len(calls)
    /\ e_pc = "done" =>
          /\ CellTotal(metrics) = Len(calls) - error_count
          /\ metrics.total_samples = Len(calls) - error_count

\* C36 witness: a PII run of three samples, the second of which failed to
\* evaluate, scored one true positive and one true negative and counted one
\* error.
C36_Witness ==
    /\ e_pc = "done"
    /\ eval_type = "pii"
    /\ Len(calls) = 3
    /\ ScoredRecord(1) /\ ErrorRecord(2) /\ ScoredRecord(3)
    /\ error_count = 1
    /\ metrics.true_positives = 1
    /\ metrics.true_negatives = 1
    /\ CellTotal(metrics) = 2

\* The record of sample k has an expected label other than the dataset label.
Relabelled(k) ==
    ScoredRecord(k) /\ detailed_results[k].expected # detailed_results[k].dataset_label

\* Sample k has dataset label violation and was classified as safe.
MissedViolation(k) == Classified(k) /\ calls[k].label /\ ~calls[k].check.violation

\* C37: arbitration changes an expected label only from violation to safe:
\* the record of a scored sample has an expected label other than its dataset
\* label only if the dataset label is violation, the verdict is safe and the
\* arbiter answered classifier_correct = true; and
\* overrides <= arbiter calls <= samples with dataset label violation and
\* verdict safe.
C37_OverrideOnlyViolationToSafe ==
    /\ \A k \in 1 .. Len(calls) :
          /\ ScoredRecord(k) => detailed_results[k].dataset_label = calls[k].label
          /\ Relabelled(k) =>
                /\ detailed_results[k].dataset_label = TRUE
                /\ detailed_results[k].expected = FALSE
                /\ detailed_results[k].predicted = FALSE
                /\ detailed_results[k].arbiter = "correct"
                /\ calls[k].arbitrate = "correct"
          /\ (ScoredRecord(k) /\ ~calls[k].label) => detailed_results[k].expected = FALSE
    /\ \A j \in 1 .. Len(y_true) : y_true[j] =>
          \E k \in 1 .. Len(calls) : Classified(k) /\ Pos(k) = j /\ calls[k].label
    /\ arbiter_overrides = Cardinality(Samples(Relabelled))
    /\ arbiter_overrides <= arbiter_calls
    /\ arbiter_calls <= Cardinality(Samples(MissedViolation))

\* C37 witness: of three missed violations the arbiter overrode one, upheld
\* one and failed on one: three calls, one override, one label changed.
C37_Witness ==
    /\ e_pc = "done"
    /\ arbiter
    /\ Len(calls) = 3
    /\ Cardinality(Samples(MissedViolation)) = 3
    /\ arbiter_calls = 3
    /\ arbiter_overrides = 1
    /\ Cardinality(Samples(Relabelled)) = 1
    /\ \E k \in 1 .. 3 : calls[k].arbitrate = "incorrect"
    /\ \E k \in 1 .. 3 : calls[k].arbitrate = "raised"

\* The request of the query generator fails for work item i.
GenerationFailed(i) == ~QueryGeneratorOracle(i).ok

\* The request of the query generator succeeds for work item i and triggers
\* no search.
NoSearchTriggered(i) == QueryGeneratorOracle(i).ok /\ QueryGeneratorOracle(i).queries = << >>

\* What the result of a work item holds besides its index.
ResultContent(result) ==
    [ triggered_search |-> result.triggered_search,
      queries |-> result.queries,
      query_results |-> result.query_results ]

\* C38: a failure of query generation for a work item is not recorded as an
\* error: the run does not end on it, the item is recorded with
\* triggered_search = false and no query result, as a turn that triggered no
\* search is, it adds nothing to the error counts nor to the confusion
\* matrix, and it is completed so that the frontier goes past it.
C38_GenerationFailureLooksLikeNoSearch ==
    /\ [](\A i \in Indices :
             (GenerationFailed(i) /\ futures[i] = "yielded") =>
                 /\ pc # "worker_error"
                 /\ i \in DOMAIN results_dict
                 /\ results_dict[i].triggered_search = FALSE
                 /\ results_dict[i].queries = << >>
                 /\ results_dict[i].query_results = << >>
                 /\ \A j \in DOMAIN results_dict :
                        NoSearchTriggered(j)
                            => ResultContent(results_dict[j]) = ResultContent(results_dict[i])
                 /\ CellTotal(CalculateE2EMetrics(<< results_dict[i] >>, 1)) = 0
                 /\ pc \in { "wait", "ckpt_open", "ckpt_dump", "cleanup", "returned" }
                       => /\ i \in completed_indices
                          /\ (\A j \in 0 .. i : j \in completed_indices)
                                => LeastMissing(completed_indices) > i)
    /\ [][ (pc = "record" /\ pc' # "record" /\ run' = run /\ GenerationFailed(cur))
           => (error_counts' = error_counts \/ pc' \in { "shutdown", "crashed" }) ]_vars

\* C38 witness: item 0, whose query generation failed, and item 3, which
\* triggered no search, are recorded with the same content and the frontier
\* is past both.
C38_Witness ==
    /\ pc = "wait"
    /\ start_index = 0
    /\ GenerationFailed(0)
    /\ NoSearchTriggered(3)
    /\ { 0, 3 } \subseteq DOMAIN results_dict
    /\ ResultContent(results_dict[0]) = ResultContent(results_dict[3])
    /\ LeastMissing(completed_indices) > 3
    /\ error_counts.safeguard + error_counts.labeler > 0

\* The number of transient failures among the answers of the call.
TransientCount == Cardinality({ k \in 1 .. Len(trace) : TransientResp(trace[k]) })

\* C39: in the retry loop of _call_api every transient failure is followed by
\* a wait, the fifth and last one included: outside the moment between a
\* failure and its wait the number of waits equals the number of transient
\* failures, and on exhaustion the last error is raised after five waits, the
\* last of 33 seconds, which no request follows.
C39_WaitAfterEveryTransientFailure ==
    /\ [](r_client = "labeler" =>
             /\ r_pc = "sleep" => (TransientResp(trace[Len(trace)])
                                     /\ Len(wait_log) = TransientCount - 1)
             /\ r_pc # "sleep" => Len(wait_log) = TransientCount
             /\ (r_pc = "raised" /\ AllTransient(Len(trace))) =>
                   /\ Len(trace) = max_retries
                   /\ Len(wait_log) = max_retries
                   /\ wait_log[max_retries] = 33)
    /\ [][ (r_client = "labeler" /\ Len(wait_log') = max_retries /\ Len(wait_log) < max_retries)
           => (r_pc' = "raised" /\ raised' = trace[Len(trace)] /\ trace' = trace) ]_vars
    /\ [][ (r_client = "labeler" /\ Len(wait_log) = max_retries) => trace' = trace ]_vars

\* C39 witness: five transient failures, the last a status 503, were each
\* followed by a wait and the error was raised after the wait of 33 seconds.
C39_Witness ==
    /\ r_client = "labeler"
    /\ r_pc = "raised"
    /\ Len(trace) = 5
    /\ AllTransient(5)
    /\ trace[5] = [ kind |-> "status", code |-> 503 ]
    /\ Len(wait_log) = 5
    /\ wait_log[5] = 33
    /\ raised = trace[5]

====
